---- MODULE Spec2Model ----
(***************************************************************************)
(* A model of the Nerevar backend (src/src-tauri/src/lib.rs.backup): the   *)
(* process supervisor (run_* commands and their monitoring tasks), the     *)
(* text config codec, the settings script codec and the application config *)
(* store, together with the event listeners of the presentation layer.     *)
(* File contents are strings, read character by character with Len,       *)
(* SubSeq and \o.                                                          *)
(***************************************************************************)
EXTENDS Integers, Sequences, FiniteSets, TLC

VARIABLES
    configFile,   \* %APPDATA%/Nerevar/config.json: NoFile, Corrupt or a NerevarConfig
    exes,         \* the executables that exist, as <<directory, file name>>
    launches,     \* one record per invocation of a run_* command, in order
    events,       \* the events delivered to the presentation layer, in order
    clientCfg,    \* TES3MP/tes3mp-client-default.cfg: None or Some(content)
    serverCfg,    \* TES3MP/tes3mp-server-default.cfg: None or Some(content)
    settingsCfg,  \* TES3MP/server/scripts/config.lua: None or Some(content)
    reply,        \* the last config command with what it was given and returned
    temp,         \* the temp directory: tes3mp_latest.zip and tes3mp_extracted
    procs         \* the running installer and set_mode commands, with their locals

vars == <<configFile, exes, launches, events, clientCfg, serverCfg, settingsCfg, reply,
          temp, procs>>
launchVars == <<launches, events>>
fileVars == <<clientCfg, serverCfg, settingsCfg, reply>>

(***************************************************************************)
(* Bounds of the model.                                                    *)
(***************************************************************************)
MaxLaunches == 1
\* The lines of the client and of the server config file the commands start
\* from.
MaxLines == 3
MaxServerLines == 2
\* The worker threads of the async runtime (as many as the machine has cores).
WorkerThreads == 2

(***************************************************************************)
(* Application Config Store.                                               *)
(***************************************************************************)
\* Option<T>: None is the empty sequence, Some(x) the sequence of x alone.
None == <<>>
Some(x) == <<x>>

\* std::env::temp_dir() with neither tes3mp_latest.zip nor tes3mp_extracted
\* nor nerevar_update.bat.
EmptyTemp == [zip |-> None, extracted |-> None, script |-> None]

NoFile == [kind |-> "NoFile"]
Corrupt == [kind |-> "Corrupt"]
PermanentPath == "APPDATA/Nerevar/TES3MP"

Mode == {"player", "server"}

NerevarConfig(path, version, updated, mode) ==
    [kind |-> "Config", tes3mp_path |-> path, version |-> version,
     last_updated |-> updated, mode |-> mode]

\* get_nerevar_config: Ok(None) without a file, Err on a file that cannot be
\* read or parsed, Ok(Some(config)) otherwise.
get_nerevar_config ==
    CASE configFile.kind = "NoFile" -> [ok |-> TRUE, some |-> FALSE]
      [] configFile.kind = "Corrupt" -> [ok |-> FALSE, error |-> "Failed to parse config file"]
      [] OTHER -> [ok |-> TRUE, some |-> TRUE, config |-> configFile]

(***************************************************************************)
(* Process Supervisor.                                                     *)
(***************************************************************************)
Tools == {"wizard", "launcher", "browser", "client", "server"}
\* A Windows exit code is a 32-bit value read as i32: zero is success.
ExitCodes == {0, 1}

\* Path::new(dir).join(name)
JoinPath(dir, name) == <<dir, name>>

\* What the listeners of the presentation layer subscribe to, per tool.
HookChannels(t) ==
    CASE t = "launcher" -> [started |-> "openmw-launcher-started", exited |-> "openmw-launcher-exited"]
      [] t = "wizard"   -> [started |-> "openmw-wizard-started",   exited |-> "openmw-wizard-exited"]
      [] t = "browser"  -> [started |-> "tes3mp-browser-started",  exited |-> "tes3mp-browser-exited"]
      [] t = "server"   -> [started |-> "tes3mp-server-started",   exited |-> "tes3mp-server-exited"]
      [] t = "client"   -> [started |-> "tes3mp-started",          exited |-> "tes3mp-exited"]

\* A process id the operating system can hand out: none of a process that is
\* still running or whose handle is still held by a monitoring task.
InUse(l) == /\ launches[l].pid # 0
            /\ \/ launches[l].proc = "running"
               \/ launches[l].monitor = "waiting"
\* Process ids are named in the order of their first use: the next process gets
\* an id used before and free again, or the first id never used.
UsedPids == {launches[l].pid : l \in DOMAIN launches} \ {0}
FreePids == (UsedPids \cup {Cardinality(UsedPids) + 1})
                \ {launches[l].pid : l \in {k \in DOMAIN launches : InUse(k)}}

\* Command::new(path).spawn(): fails when the file is missing, and may fail
\* for any other reason of the operating system.
SpawnOutcomes(path) == IF path \in exes THEN {"ok", "err"} ELSE {"err"}

\* The existence check left out.
ExistsUnchecked(path) == TRUE

\* path.exists()
Exists(path) == path \in exes

\* Success taken from the sign of the exit code instead of status.success().
ExitedPayloadBySign(pid, wait) ==
    IF wait.ok
    THEN [pid |-> pid, success |-> (wait.code >= 0), exit_code |-> Some(wait.code),
          message |-> "completed successfully"]
    ELSE [pid |-> pid, success |-> FALSE, exit_code |-> None,
          message |-> "Failed to wait"]

\* The payload of a '<tool>-exited' event, from the result of child.wait().
ExitedPayload(pid, wait) ==
    IF wait.ok
    THEN [pid |-> pid, success |-> (wait.code = 0), exit_code |-> Some(wait.code),
          message |-> IF wait.code = 0 THEN "completed successfully"
                                       ELSE "exited with an error"]
    ELSE [pid |-> pid, success |-> FALSE, exit_code |-> None,
          message |-> "Failed to wait"]

\* What the command returns once the monitoring task has been spawned:
\* Ok("... started successfully (PID: pid)").
StartedResult(pid) == [ok |-> TRUE, pid |-> pid]

\* The command waiting for the child itself before it returns.
CanReturnAfterWait(l) == launches[l].monitor = "done"

\* When the command can hand its result to the caller: the monitoring task
\* was given to the runtime with tokio::spawn, which does not wait for it.
CanReturn(l) == launches[l].monitor \in {"waiting", "done"}

\* A launch: the tool, what the command returned (None until it has), the child (its pid, or 0
\* when nothing was spawned; whether it runs; its exit code), and the
\* monitoring task (the channel it emits on, where it stands, what
\* child.wait() gave it).
NewLaunch(t, ret, pid, proc, monitor, exitedChannel) ==
    [tool |-> t, ret |-> ret, pid |-> pid, proc |-> proc, code |-> None,
     monitor |-> monitor, exitedChannel |-> exitedChannel, wait |-> None]

\* The body shared by the run_* commands. The command has no suspension
\* point: it reads the config, checks the executable, spawns it, emits the
\* start event and spawns the monitoring task; every early return is part of
\* this step. After tokio::spawn the monitoring task runs on the runtime
\* beside the command, whose final Ok(..) is the step Returns.
LaunchTool(t, exe, startedChannel, exitedChannel) ==
    /\ LET cfg == get_nerevar_config
           l == Len(launches) + 1
           Return(rec) == /\ launches' = Append(launches, rec)
                          /\ UNCHANGED <<configFile, exes, temp, procs, fileVars>>
       IN  IF ~cfg.ok
           THEN /\ Return(NewLaunch(t, Some([ok |-> FALSE, error |-> "Failed to get Nerevar config"]),
                                    0, "none", "none", exitedChannel))
                /\ UNCHANGED events
           ELSE IF ~cfg.some
           THEN /\ Return(NewLaunch(t, Some([ok |-> FALSE, error |-> "No Nerevar config found"]),
                                    0, "none", "none", exitedChannel))
                /\ UNCHANGED events
           ELSE LET path == JoinPath(cfg.config.tes3mp_path, exe)
                IN  IF ~Exists(path)
                    THEN /\ Return(NewLaunch(t, Some([ok |-> FALSE, error |-> "not found at",
                                                  path |-> path]), 0, "none", "none", exitedChannel))
                         /\ UNCHANGED events
                    ELSE \E spawned \in SpawnOutcomes(path) :
                         IF spawned = "err"
                         THEN /\ Return(NewLaunch(t, Some([ok |-> FALSE, error |-> "Failed to run"]),
                                                  0, "none", "none", exitedChannel))
                              /\ UNCHANGED events
                         ELSE \E pid \in FreePids, emitted \in BOOLEAN :
                              IF ~emitted
                              THEN \* the `?` on emit returns before tokio::spawn
                                   /\ Return(NewLaunch(t, Some([ok |-> FALSE,
                                                 error |-> "Failed to emit started event"]),
                                                 pid, "running", "none", exitedChannel))
                                   /\ UNCHANGED events
                              ELSE /\ events' = Append(events,
                                         [channel |-> startedChannel, launch |-> l,
                                          payload |-> pid])
                                   /\ Return(NewLaunch(t, None, pid,
                                                       "running", "waiting",
                                                       exitedChannel))

\* A run_* command invoked, while the launches of the run are not used up.
Launch(t, exe, startedChannel, exitedChannel) ==
    /\ Len(launches) < MaxLaunches
    /\ LaunchTool(t, exe, startedChannel, exitedChannel)

run_openmw_wizard == Launch("wizard", "openmw-wizard.exe",
                            "openmw-wizard-started", "openmw-wizard-exited")

run_openmw_launcher == Launch("launcher", "openmw-launcher.exe",
                              "openmw-launcher-started", "openmw-launcher-exited")

\* The browser command emitting on the game client's channels.
run_tes3mp_browser_on_client_channels ==
    Launch("browser", "tes3mp-browser.exe", "tes3mp-started", "tes3mp-exited")

run_tes3mp_browser == Launch("browser", "tes3mp-browser.exe",
                             "tes3mp-browser-started", "tes3mp-browser-exited")

run_tes3mp == Launch("client", "tes3mp.exe", "tes3mp-started", "tes3mp-exited")

\* The command the server card invokes; the backend source at hand does not
\* hold it, so it follows the contract of the other four.
run_tes3mp_server == Launch("server", "tes3mp-server.exe",
                            "tes3mp-server-started", "tes3mp-server-exited")

\* The command's Ok(..) reaches the caller.
Returns(l) ==
    /\ l \in DOMAIN launches
    /\ launches[l].ret = None
    /\ CanReturn(l)
    /\ launches' = [launches EXCEPT ![l].ret = Some(StartedResult(launches[l].pid))]
    /\ UNCHANGED <<configFile, exes, temp, procs, events, fileVars>>

\* The operating system: a launched process terminates with some exit code.
ProcessExits(l) ==
    /\ l \in DOMAIN launches
    /\ launches[l].proc = "running"
    /\ \E code \in ExitCodes :
         launches' = [launches EXCEPT ![l].proc = "exited", ![l].code = Some(code)]
    /\ UNCHANGED <<configFile, exes, temp, procs, events, fileVars>>

\* The monitoring task: child.wait() returns (with the exit status once the
\* process has terminated, or with an error), and the exited event is
\* emitted; a failed emit is only logged.
Monitor(l) ==
    /\ l \in DOMAIN launches
    /\ launches[l].monitor = "waiting"
    /\ \E wait \in {[ok |-> FALSE]} \cup
                   {[ok |-> TRUE, code |-> c] : c \in
                        IF launches[l].proc = "exited" THEN {launches[l].code[1]} ELSE {}} :
       \E emitted \in BOOLEAN :
         /\ launches' = [launches EXCEPT ![l].monitor = "done", ![l].wait = Some(wait)]
         /\ events' = IF emitted
                      THEN Append(events, [channel |-> launches[l].exitedChannel,
                                           launch |-> l,
                                           payload |-> ExitedPayload(launches[l].pid, wait)])
                      ELSE events
    /\ UNCHANGED <<configFile, exes, temp, procs, fileVars>>

(***************************************************************************)
(* The supervisor specification: a file system drawn at the start, then    *)
(* launches, process terminations and monitoring tasks in any order.       *)
(***************************************************************************)
ExeNames == {"openmw-wizard.exe", "openmw-launcher.exe", "tes3mp-browser.exe",
             "tes3mp.exe", "tes3mp-server.exe"}

\* The file systems a launch is tried on: no config, an unreadable config, an
\* installation with every executable, and a config without install path
\* (written by set_mode before any installation) beside a stray tes3mp.exe.
FileSystems ==
         {<<NoFile, {JoinPath(PermanentPath, n) : n \in ExeNames}>>,
          <<Corrupt, {JoinPath(PermanentPath, n) : n \in ExeNames}>>,
          <<NerevarConfig(PermanentPath, "0.8.1", 1, Some("player")),
            {JoinPath(PermanentPath, n) : n \in ExeNames}>>,
          <<NerevarConfig("", "0.0.0", 1, Some("server")),
            {JoinPath("", "tes3mp.exe")}>>}

InitLaunch ==
    /\ \E fs \in FileSystems : configFile = fs[1] /\ exes = fs[2]
    /\ launches = <<>>
    /\ events = <<>>
    /\ clientCfg = None /\ serverCfg = None /\ settingsCfg = None /\ reply = None
    /\ temp = EmptyTemp /\ procs = <<>>

NextLaunch ==
    \/ run_openmw_wizard
    \/ run_openmw_launcher
    \/ run_tes3mp_browser
    \/ run_tes3mp
    \/ run_tes3mp_server
    \/ \E l \in 1..MaxLaunches : Returns(l)
    \/ \E l \in 1..MaxLaunches : ProcessExits(l)
    \/ \E l \in 1..MaxLaunches : Monitor(l)

SpecLaunch == InitLaunch /\ [][NextLaunch]_vars

(***************************************************************************)
(* Properties of the process supervisor.                                   *)
(***************************************************************************)
StartedChannels == {HookChannels(t).started : t \in Tools}
ExitedChannels == {HookChannels(t).exited : t \in Tools}

\* The start events and the terminal events that carry the pid of launch l.
StartedOf(l) == {i \in DOMAIN events : /\ events[i].launch = l
                                       /\ events[i].channel \in StartedChannels
                                       /\ events[i].payload = launches[l].pid}
ExitedOf(l) == {i \in DOMAIN events : /\ events[i].launch = l
                                      /\ events[i].channel \in ExitedChannels
                                      /\ events[i].payload.pid = launches[l].pid}
EventsOf(l) == {i \in DOMAIN events : events[i].launch = l}

\* The fixed file name of each tool.
ToolExe(t) ==
    CASE t = "wizard" -> "openmw-wizard.exe"
      [] t = "launcher" -> "openmw-launcher.exe"
      [] t = "browser" -> "tes3mp-browser.exe"
      [] t = "client" -> "tes3mp.exe"
      [] t = "server" -> "tes3mp-server.exe"

\* Nothing more will happen for launch l: its process has terminated and no
\* monitoring task is waiting for it.
Finished(l) == launches[l].proc = "exited" /\ launches[l].monitor # "waiting"

\* C1: every launch that spawned a process has exactly one start event with
\* its pid, emitted with the spawn, at most one terminal event with that pid,
\* after the start event, and exactly one once the launch is finished,
\* whatever the outcomes of the emissions and of the wait.
C1_OneStartThenOneExit ==
    \A l \in DOMAIN launches :
        launches[l].pid # 0 =>
            /\ Cardinality(StartedOf(l)) = 1
            /\ Cardinality(ExitedOf(l)) <= 1
            /\ \A i \in StartedOf(l), j \in ExitedOf(l) : i < j
            /\ Finished(l) => Cardinality(ExitedOf(l)) = 1

\* C2: a terminal event has success = true exactly when the wait gave a zero
\* exit status, carries the process's exit code whenever the wait succeeded,
\* and has success = false without exit code exactly when the wait failed.
C2_ExitPayload ==
    \A i \in DOMAIN events :
        events[i].channel \in ExitedChannels =>
            LET l == events[i].launch
                p == events[i].payload
                waited == launches[l].wait[1].ok
            IN  /\ launches[l].wait # None
                /\ p.pid = launches[l].pid
                /\ p.success = (waited /\ launches[l].code = Some(0))
                /\ waited => (launches[l].code # None /\ p.exit_code = launches[l].code)
                /\ (p.success = FALSE /\ p.exit_code = None) <=> ~waited

C2_Witness ==
    \E i \in DOMAIN events :
        /\ events[i].channel \in ExitedChannels
        /\ events[i].payload.success = FALSE
        /\ events[i].payload.exit_code = Some(1)

C4_ReturnNeverWaits ==
    \A l \in DOMAIN launches : launches[l].ret = None => ENABLED Returns(l)

\* The command has returned the pid while the process still runs and no
\* terminal event exists.
C4_Witness ==
    \E l \in DOMAIN launches :
        /\ launches[l].ret = Some(StartedResult(launches[l].pid))
        /\ launches[l].proc = "running"
        /\ launches[l].monitor = "waiting"
        /\ ExitedOf(l) = {}

\* C5: without a config record, or with the tool's executable missing at the
\* path joined from the stored install path and the tool's file name, the
\* launch returns an error (naming that path when the file is missing),
\* spawns nothing and emits nothing.
C5_NotFoundSpawnsNothing ==
    \A l \in DOMAIN launches :
        LET path == JoinPath(configFile.tes3mp_path, ToolExe(launches[l].tool))
        IN  /\ configFile.kind = "NoFile" =>
                    /\ launches[l].ret = Some([ok |-> FALSE, error |-> "No Nerevar config found"])
                    /\ launches[l].pid = 0 /\ launches[l].proc = "none"
                    /\ EventsOf(l) = {}
            /\ (configFile.kind = "Config" /\ path \notin exes) =>
                    /\ launches[l].ret = Some([ok |-> FALSE, error |-> "not found at",
                                                path |-> path])
                    /\ launches[l].pid = 0 /\ launches[l].proc = "none"
                    /\ EventsOf(l) = {}

C5_Witness ==
    \E l \in DOMAIN launches :
        /\ configFile.kind = "Config"
        /\ launches[l].tool = "wizard"
        /\ launches[l].ret = Some([ok |-> FALSE, error |-> "not found at",
                                    path |-> JoinPath("", "openmw-wizard.exe")])

(***************************************************************************)
(* Strings (str of the standard library).                                  *)
(***************************************************************************)
Ch(s, i) == SubSeq(s, i, i)
From(s, i) == SubSeq(s, i, Len(s))

\* char::is_whitespace, on the characters that occur
IsWhitespace(c) == c \in {" ", "\t", "\n", "\r"}

RECURSIVE trim_start(_)
trim_start(s) == IF s # "" /\ IsWhitespace(Ch(s, 1)) THEN trim_start(From(s, 2)) ELSE s
RECURSIVE trim_end(_)
trim_end(s) ==
    IF s # "" /\ IsWhitespace(Ch(s, Len(s))) THEN trim_end(SubSeq(s, 1, Len(s) - 1)) ELSE s
trim(s) == trim_end(trim_start(s))

starts_with(s, p) == Len(s) >= Len(p) /\ SubSeq(s, 1, Len(p)) = p
ends_with(s, p) == Len(s) >= Len(p) /\ From(s, Len(s) - Len(p) + 1) = p

\* s.find(p): the zero-based offset of the first occurrence, as an Option
RECURSIVE FindFrom(_, _, _)
FindFrom(s, p, i) ==
    IF i + Len(p) - 1 > Len(s) THEN None
    ELSE IF SubSeq(s, i, i + Len(p) - 1) = p THEN Some(i - 1)
    ELSE FindFrom(s, p, i + 1)
find(s, p) == FindFrom(s, p, 1)
contains(s, p) == find(s, p) # None

\* The slice s[a..b] of zero-based offsets, b excluded.
Slice(s, a, b) == SubSeq(s, a + 1, b)

\* s.split(c) for a character c, scanned from the left.
RECURSIVE SplitScan(_, _)
SplitScan(s, c) ==
    LET at == find(s, c)
    IN  IF at = None THEN <<s>>
        ELSE <<Slice(s, 0, at[1])>> \o SplitScan(From(s, at[1] + 2), c)

\* s.split(c) for a character c: a text of more than 64 characters is split
\* as its two halves, the
\* piece that ends the first half being the start of the piece that begins
\* the second.
RECURSIVE split(_, _)
split(s, c) ==
    IF Len(s) <= 64 THEN SplitScan(s, c)
    ELSE LET l == split(SubSeq(s, 1, Len(s) \div 2), c)
             r == split(From(s, Len(s) \div 2 + 1), c)
         IN  SubSeq(l, 1, Len(l) - 1) \o <<l[Len(l)] \o r[1]>> \o Tail(r)

\* s.lines(): the pieces ended by "\n", without that "\n" and a "\r" before
\* it, and the rest of the text if it is not empty.
lines(s) ==
    LET pieces == split(s, "\n")
        n == Len(pieces)
        Line(piece) == IF ends_with(piece, "\r") THEN Slice(piece, 0, Len(piece) - 1)
                       ELSE piece
    IN  [i \in 1..(n - 1) |-> Line(pieces[i])]
            \o (IF pieces[n] = "" THEN <<>> ELSE <<pieces[n]>>)

\* v.join(sep)
RECURSIVE join(_, _)
join(v, sep) ==
    IF v = <<>> THEN ""
    ELSE IF Len(v) = 1 THEN v[1]
    ELSE v[1] \o sep \o join(Tail(v), sep)

\* format!("{}", n) of an unsigned integer
RECURSIVE Display(_)
Display(n) == IF n < 10 THEN Ch("0123456789", n + 1)
              ELSE Display(n \div 10) \o Ch("0123456789", (n % 10) + 1)

(***************************************************************************)
(* Text Config Codec: the scan of update_config_values and                 *)
(* update_server_config_values.                                            *)
(***************************************************************************)
\* for line in lines.iter_mut(): from line i on, in section `section`, with
\* the replacement line of each <<section, key>> the call updates. Gives the
\* lines from i on and whether one was replaced.
\* (First the same scan replacing a line by its key alone, whatever header
\* is above it.)
RECURSIVE UpdateLinesInAnySection(_, _, _, _)
UpdateLinesInAnySection(v, i, section, replace) ==
    IF i > Len(v) THEN [lines |-> <<>>, updated |-> FALSE]
    ELSE LET line == v[i]
             trimmed == trim(line)
             rest == UpdateLinesInAnySection(v, i + 1, section, replace)
             eq_pos == find(trimmed, "=")
             named == IF eq_pos = None \/ starts_with(trimmed, "#") THEN {}
                      ELSE {sk \in DOMAIN replace : sk[2] = trim(Slice(trimmed, 0, eq_pos[1]))}
         IN  IF named = {} THEN [lines |-> <<line>> \o rest.lines, updated |-> rest.updated]
             ELSE [lines |-> <<replace[CHOOSE sk \in named : TRUE]>> \o rest.lines,
                   updated |-> TRUE]

RECURSIVE UpdateLines(_, _, _, _)
UpdateLines(v, i, section, replace) ==
    IF i > Len(v) THEN [lines |-> <<>>, updated |-> FALSE]
    ELSE LET line == v[i]
             trimmed == trim(line)
             Keep(sec) == LET rest == UpdateLines(v, i + 1, sec, replace)
                          IN  [lines |-> <<line>> \o rest.lines, updated |-> rest.updated]
             Set(new) == LET rest == UpdateLines(v, i + 1, section, replace)
                         IN  [lines |-> <<new>> \o rest.lines, updated |-> TRUE]
         IN  IF starts_with(trimmed, "[") /\ ends_with(trimmed, "]")
             THEN Keep(Some(Slice(trimmed, 1, Len(trimmed) - 1)))
             ELSE IF trimmed = "" \/ starts_with(trimmed, "#") THEN Keep(section)
             ELSE LET eq_pos == find(trimmed, "=")
                  IN  IF eq_pos = None THEN Keep(section)
                      ELSE LET key == trim(Slice(trimmed, 0, eq_pos[1]))
                           IN  IF section # None /\ <<section[1], key>> \in DOMAIN replace
                               THEN Set(replace[<<section[1], key>>])
                               ELSE Keep(section)

NoMatchingKeys == [ok |-> FALSE, error |-> "No matching configuration keys found to update"]

\* The end of both update functions, without `if !updated { return Err(..) }`.
FinishUpdateUnchecked(scan) == [ok |-> TRUE, content |-> join(scan.lines, "\n")]

\* if !updated { return Err(..) }  Ok(lines.join("\n"))
FinishUpdate(scan) ==
    IF ~scan.updated THEN NoMatchingKeys
    ELSE [ok |-> TRUE, content |-> join(scan.lines, "\n")]

\* The match arms of update_config_values.
ClientReplacements(ip, port, password) ==
    (<<"General", "destinationAddress">> :> ("destinationAddress = " \o ip))
    @@ (<<"General", "port">> :> ("port = " \o Display(port)))
    @@ (<<"General", "password">> :> ("password = " \o password))

update_config_values(content, ip, port, password) ==
    FinishUpdate(UpdateLines(lines(content), 1, None, ClientReplacements(ip, port, password)))

(***************************************************************************)
(* serde_json::Value, as far as the commands read it: an object of objects *)
(* is a function from <<object, key>> to the value at that path.           *)
(***************************************************************************)
JString(x) == [t |-> "string", str |-> x, num |-> 0, bool |-> FALSE]
JNumber(n) == [t |-> "number", str |-> "", num |-> n, bool |-> FALSE]
JBool(b) == [t |-> "bool", str |-> "", num |-> 0, bool |-> b]

as_str(v) == IF v.t = "string" THEN Some(v.str) ELSE None
as_u64(v) == IF v.t = "number" /\ v.num >= 0 THEN Some(v.num) ELSE None
as_bool(v) == IF v.t = "bool" THEN Some(v.bool) ELSE None

\* format!("{}", b)
DisplayBool(b) == IF b THEN "true" ELSE "false"

\* The match arms of update_server_config_values: the section and key of a
\* line, the object of the patch that holds its value, and how it is read.
ServerKeys ==
    {[section |-> "General", key |-> "localAddress", object |-> "general", as |-> "str"],
     [section |-> "General", key |-> "port", object |-> "general", as |-> "u64"],
     [section |-> "General", key |-> "maximumPlayers", object |-> "general", as |-> "u64"],
     [section |-> "General", key |-> "hostname", object |-> "general", as |-> "str"],
     [section |-> "General", key |-> "logLevel", object |-> "general", as |-> "u64"],
     [section |-> "General", key |-> "password", object |-> "general", as |-> "str"],
     [section |-> "Plugins", key |-> "home", object |-> "plugins", as |-> "str"],
     [section |-> "Plugins", key |-> "plugins", object |-> "plugins", as |-> "str"],
     [section |-> "MasterServer", key |-> "enabled", object |-> "masterServer", as |-> "bool"],
     [section |-> "MasterServer", key |-> "address", object |-> "masterServer", as |-> "str"],
     [section |-> "MasterServer", key |-> "port", object |-> "masterServer", as |-> "u64"],
     [section |-> "MasterServer", key |-> "rate", object |-> "masterServer", as |-> "u64"]}

\* config.get(object) -> .get(key) -> .as_str() / .as_u64() / .as_bool(),
\* formatted; None when one of them is None.
ServerValue(config, k) ==
    IF <<k.object, k.key>> \notin DOMAIN config THEN None
    ELSE LET v == config[<<k.object, k.key>>]
         IN  CASE k.as = "str" -> as_str(v)
               [] k.as = "u64" -> IF as_u64(v) = None THEN None
                                  ELSE Some(Display(as_u64(v)[1]))
               [] k.as = "bool" -> IF as_bool(v) = None THEN None
                                   ELSE Some(DisplayBool(as_bool(v)[1]))

ServerReplacements(config) ==
    LET set == {k \in ServerKeys : ServerValue(config, k) # None}
    IN  [sk \in {<<k.section, k.key>> : k \in set} |->
            LET k == CHOOSE k \in set : <<k.section, k.key>> = sk
            IN  k.key \o " = " \o ServerValue(config, k)[1]]

update_server_config_values(content, config) ==
    FinishUpdate(UpdateLines(lines(content), 1, None, ServerReplacements(config)))

(***************************************************************************)
(* The commands on the two text config files.                              *)
(***************************************************************************)
NotFound(what) == [ok |-> FALSE, error |-> what \o " not found at"]

set_tes3mp_client_config(ip, port, password) ==
    LET Reply(result) == reply' = Some([cmd |-> "set_tes3mp_client_config",
                                        before |-> clientCfg, ip |-> ip, port |-> port,
                                        password |-> password, result |-> result])
    IN  /\ IF clientCfg = None
           THEN Reply(NotFound("TES3MP client config file")) /\ UNCHANGED clientCfg
           ELSE LET updated_content == update_config_values(clientCfg[1], ip, port, password)
                IN  IF ~updated_content.ok
                    THEN Reply(updated_content) /\ UNCHANGED clientCfg
                    ELSE /\ clientCfg' = Some(updated_content.content)
                         /\ Reply([ok |-> TRUE, value |-> TRUE])
        /\ UNCHANGED <<configFile, exes, temp, procs, launchVars, serverCfg, settingsCfg>>

set_tes3mp_server_config(config) ==
    LET Reply(result) == reply' = Some([cmd |-> "set_tes3mp_server_config",
                                        before |-> serverCfg, config |-> config,
                                        result |-> result])
    IN  /\ IF serverCfg = None
           THEN Reply(NotFound("TES3MP server config file")) /\ UNCHANGED serverCfg
           ELSE LET updated_content == update_server_config_values(serverCfg[1], config)
                IN  IF ~updated_content.ok
                    THEN Reply(updated_content) /\ UNCHANGED serverCfg
                    ELSE /\ serverCfg' = Some(updated_content.content)
                         /\ Reply([ok |-> TRUE, value |-> TRUE])
        /\ UNCHANGED <<configFile, exes, temp, procs, launchVars, clientCfg, settingsCfg>>

(***************************************************************************)
(* Text Config Codec: parse_server_config.                                 *)
(***************************************************************************)
U8Max == 255
U16Max == 65535
\* u32::MAX is 4294967295; the model's integers end at 2^31 - 1 and no rate
\* of the model comes near either.
U32Max == 2147483647

unwrap_or(option, default) == IF option = None THEN default ELSE option[1]

\* <uN as FromStr>: an optional "+", then one or more digits, accumulated
\* with checked_mul and checked_add.
RECURSIVE Accumulate(_, _, _)
Accumulate(digits, acc, max) ==
    IF digits = "" THEN Some(acc)
    ELSE LET d == CHOOSE d \in 0..9 : Ch("0123456789", d + 1) = Ch(digits, 1)
         IN  IF acc > (max - d) \div 10 THEN None
             ELSE Accumulate(From(digits, 2), acc * 10 + d, max)

IsDigits(s) == s # "" /\ \A i \in 1..Len(s) : contains("0123456789", Ch(s, i))

ParseUnsigned(s, max) ==
    LET digits == IF starts_with(s, "+") THEN From(s, 2) ELSE s
    IN  IF IsDigits(digits) THEN Accumulate(digits, 0, max) ELSE None

\* <bool as FromStr>
ParseBool(s) == IF s = "true" THEN Some(TRUE) ELSE IF s = "false" THEN Some(FALSE) ELSE None

\* The record parse_server_config starts from, with another
\* default port.
ServerConfigDefaultsOtherPort ==
    [general |-> [local_address |-> "0.0.0.0", port |-> 25561, maximum_players |-> 64,
                  hostname |-> "TES3MP server", log_level |-> 1, password |-> ""],
     plugins |-> [home |-> "./server", plugins |-> "serverCore.lua"],
     master_server |-> [enabled |-> TRUE, address |-> "master.tes3mp.com",
                        port |-> 25561, rate |-> 10000]]

\* The record parse_server_config starts from.
ServerConfigDefaults ==
    [general |-> [local_address |-> "0.0.0.0", port |-> 25565, maximum_players |-> 64,
                  hostname |-> "TES3MP server", log_level |-> 1, password |-> ""],
     plugins |-> [home |-> "./server", plugins |-> "serverCore.lua"],
     master_server |-> [enabled |-> TRUE, address |-> "master.tes3mp.com",
                        port |-> 25561, rate |-> 10000]]

\* match current_section { Some("General") => match key { .. }, .. }
ServerEntry(cfg, section, key, value) ==
    CASE section = Some("General") /\ key = "localAddress" ->
            [cfg EXCEPT !.general.local_address = value]
      [] section = Some("General") /\ key = "port" ->
            [cfg EXCEPT !.general.port = unwrap_or(ParseUnsigned(value, U16Max), 25565)]
      [] section = Some("General") /\ key = "maximumPlayers" ->
            [cfg EXCEPT !.general.maximum_players = unwrap_or(ParseUnsigned(value, U16Max), 64)]
      [] section = Some("General") /\ key = "hostname" ->
            [cfg EXCEPT !.general.hostname = value]
      [] section = Some("General") /\ key = "logLevel" ->
            [cfg EXCEPT !.general.log_level = unwrap_or(ParseUnsigned(value, U8Max), 1)]
      [] section = Some("General") /\ key = "password" ->
            [cfg EXCEPT !.general.password = value]
      [] section = Some("Plugins") /\ key = "home" ->
            [cfg EXCEPT !.plugins.home = value]
      [] section = Some("Plugins") /\ key = "plugins" ->
            [cfg EXCEPT !.plugins.plugins = value]
      [] section = Some("MasterServer") /\ key = "enabled" ->
            [cfg EXCEPT !.master_server.enabled = unwrap_or(ParseBool(value), TRUE)]
      [] section = Some("MasterServer") /\ key = "address" ->
            [cfg EXCEPT !.master_server.address = value]
      [] section = Some("MasterServer") /\ key = "port" ->
            [cfg EXCEPT !.master_server.port = unwrap_or(ParseUnsigned(value, U16Max), 25561)]
      [] section = Some("MasterServer") /\ key = "rate" ->
            [cfg EXCEPT !.master_server.rate = unwrap_or(ParseUnsigned(value, U32Max), 10000)]
      [] OTHER -> cfg

\* for line in content.lines(): from line i on.
RECURSIVE ServerLines(_, _, _, _)
ServerLines(v, i, section, cfg) ==
    IF i > Len(v) THEN cfg
    ELSE LET trimmed == trim(v[i])
         IN  IF trimmed = "" \/ starts_with(trimmed, "#")
             THEN ServerLines(v, i + 1, section, cfg)
             ELSE IF starts_with(trimmed, "[") /\ ends_with(trimmed, "]")
             THEN ServerLines(v, i + 1, Some(Slice(trimmed, 1, Len(trimmed) - 1)), cfg)
             ELSE LET eq_pos == find(trimmed, "=")
                  IN  IF eq_pos = None THEN ServerLines(v, i + 1, section, cfg)
                      ELSE ServerLines(v, i + 1, section,
                               ServerEntry(cfg, section,
                                           trim(Slice(trimmed, 0, eq_pos[1])),
                                           trim(From(trimmed, eq_pos[1] + 2))))

parse_server_config(content) ==
    [ok |-> TRUE, value |-> ServerLines(lines(content), 1, None, ServerConfigDefaults)]

get_tes3mp_server_config ==
    /\ reply' = Some([cmd |-> "get_tes3mp_server_config", before |-> serverCfg,
                      result |-> IF serverCfg = None
                                 THEN NotFound("TES3MP server config file")
                                 ELSE parse_server_config(serverCfg[1])])
    /\ UNCHANGED <<configFile, exes, temp, procs, launchVars, clientCfg, serverCfg, settingsCfg>>

(***************************************************************************)
(* Settings Script Codec: write_server_settings.                           *)
(* An f64 is held as the decimal that format!("{}") prints for it.         *)
(***************************************************************************)
JNull == [t |-> "null", str |-> "", num |-> 0, bool |-> FALSE]

\* format!("{}", n) of an i32
DisplayInt(n) == IF n < 0 THEN "-" \o Display(-n) ELSE Display(n)
\* format!("{}", x) of an f64
DisplayFloat(x) == x

\* The pieces pushed onto one String, in order.
RECURSIVE Concat(_)
Concat(v) ==
    IF v = <<>> THEN ""
    ELSE IF Len(v) = 1 THEN v[1]
    ELSE Concat(SubSeq(v, 1, Len(v) \div 2)) \o Concat(SubSeq(v, Len(v) \div 2 + 1, Len(v)))

\* for (i, x) in list.iter().enumerate() { if i > 0 { ", " } "\"{}\"" }
JoinQuoted(v) == join([i \in 1..Len(v) |-> "\"" \o v[i] \o "\""], ", ")
\* for (i, x) in list.iter().enumerate() { if i > 0 { ", " } "{}" }
JoinFloats(v) == join([i \in 1..Len(v) |-> DisplayFloat(v[i])], ", ")

\* for setting in &settings.config.game_settings { .. }
GameSettingsLines(v) ==
    Concat([i \in 1..Len(v) |->
        LET value_str == CASE v[i].value.t = "bool" -> DisplayBool(v[i].value.bool)
                           [] v[i].value.t = "number" -> DisplayInt(v[i].value.num)
                           [] v[i].value.t = "string" -> "\"" \o v[i].value.str \o "\""
                           [] OTHER -> "nil"
        IN  "    { name = \"" \o v[i].name \o "\", value = " \o value_str \o " },\n"])

\* for setting in &settings.config.vr_settings { .. }
VrSettingsLines(v) ==
    Concat([i \in 1..Len(v) |->
        "    { name = \"" \o v[i].name \o "\", value = " \o DisplayFloat(v[i].value) \o " },\n"])

\* write_server_settings, the pieces it pushes, in order.
write_server_settings(settings) ==
    Concat(<<
        "config = {}\n\n",
        "-- The path used by the server for its data folder\n",
        "config.dataPath = tes3mp.GetDataPath()\n\n",
        "-- The game mode displayed for this server in the server browser\n",
        "config.gameMode = \"" \o settings.config.game_mode \o "\"\n\n",
        "-- Time to login, in seconds\n",
        "config.loginTime = " \o DisplayInt(settings.config.login_time) \o "\n\n",
        "-- How many clients are allowed to connect from the same IP address\n",
        "config.maxClientsPerIP = " \o DisplayInt(settings.config.max_clients_per_ip) \o "\n\n",
        "-- The difficulty level used by default\n",
        "-- Note: In OpenMW, the difficulty slider goes between -100 and 100, with 0 as the default,\n",
        "--       though you can use any integer value here\n",
        "config.difficulty = " \o DisplayInt(settings.config.difficulty) \o "\n\n",
        "-- The game settings to enforce for players\n",
        "-- Note 1: Anything from OpenMW's game settings can be added here, which means anything listed\n",
        "--         on https://openmw.readthedocs.io/en/latest/reference/modding/settings/game.html\n",
        "-- Note 2: Some settings, such as \"difficulty\" and \"actors processing range\", cannot be\n",
        "--         changed from here\n",
        "config.gameSettings = {\n",
        GameSettingsLines(settings.config.game_settings) \o "}\n\n",
        "-- The VR settings to enforce for players\n",
        "config.vrSettings = {\n",
        VrSettingsLines(settings.config.vr_settings) \o "}\n\n",
        "-- The world time used for a newly created world\n",
        "config.defaultTimeTable = { year = " \o DisplayInt(settings.config.default_time_table.year) \o ", month = " \o DisplayInt(settings.config.default_time_table.month) \o ", day = " \o DisplayInt(settings.config.default_time_table.day) \o ", hour = " \o DisplayInt(settings.config.default_time_table.hour) \o ",\n",
        "    daysPassed = " \o DisplayInt(settings.config.default_time_table.days_passed) \o ", dayTimeScale = " \o DisplayInt(settings.config.default_time_table.day_time_scale) \o ", nightTimeScale = " \o DisplayInt(settings.config.default_time_table.night_time_scale) \o " }\n\n",
        "-- Which ingame startup scripts should be run via the /runstartup command\n",
        "-- Note: These affect the world and must not be run for every player who joins.\n",
        "config.worldStartupScripts = {" \o JoinQuoted(settings.config.world_startup_scripts) \o "}\n\n",
        "-- Which ingame startup scripts should be run on every player who joins\n",
        "-- Note: These pertain to game mechanics that wouldn't work otherwise, such as vampirism checks\n",
        "config.playerStartupScripts = {" \o JoinQuoted(settings.config.player_startup_scripts) \o "}\n\n",
        "-- Whether the world time should continue passing when there are no players on the server\n",
        "config.passTimeWhenEmpty = " \o DisplayBool(settings.config.pass_time_when_empty) \o "\n\n",
        "-- The hours at which night is regarded as starting and ending, used to pass time using a\n",
        "-- different timescale when it's night\n",
        "config.nightStartHour = " \o DisplayInt(settings.config.night_start_hour) \o "\n",
        "config.nightEndHour = " \o DisplayInt(settings.config.night_end_hour) \o "\n\n",
        "-- Whether players should be allowed to use the ingame tilde (~) console by default\n",
        "config.allowConsole = " \o DisplayBool(settings.config.allow_console) \o "\n\n",
        "-- Whether players should be allowed to rest in bed by default\n",
        "config.allowBedRest = " \o DisplayBool(settings.config.allow_bed_rest) \o "\n\n",
        "-- Whether players should be allowed to rest in the wilderness by default\n",
        "config.allowWildernessRest = " \o DisplayBool(settings.config.allow_wilderness_rest) \o "\n\n",
        "-- Whether players should be allowed to wait by default\n",
        "config.allowWait = " \o DisplayBool(settings.config.allow_wait) \o "\n\n",
        "-- Whether journal entries should be shared across the players on the server or not\n",
        "config.shareJournal = " \o DisplayBool(settings.config.share_journal) \o "\n\n",
        "-- Whether faction ranks should be shared across the players on the server or not\n",
        "config.shareFactionRanks = " \o DisplayBool(settings.config.share_faction_ranks) \o "\n\n",
        "-- Whether faction expulsion should be shared across the players on the server or not\n",
        "config.shareFactionExpulsion = " \o DisplayBool(settings.config.share_faction_expulsion) \o "\n\n",
        "-- Whether faction reputation should be shared across the players on the server or not\n",
        "config.shareFactionReputation = " \o DisplayBool(settings.config.share_faction_reputation) \o "\n\n",
        "-- Whether dialogue topics should be shared across the players on the server or not\n",
        "config.shareTopics = " \o DisplayBool(settings.config.share_topics) \o "\n\n",
        "-- Whether crime bounties should be shared across players on the server or not\n",
        "config.shareBounty = " \o DisplayBool(settings.config.share_bounty) \o "\n\n",
        "-- Whether reputation should be shared across players on the server or not\n",
        "config.shareReputation = " \o DisplayBool(settings.config.share_reputation) \o "\n\n",
        "-- Whether map exploration should be shared across players on the server or not\n",
        "config.shareMapExploration = " \o DisplayBool(settings.config.share_map_exploration) \o "\n\n",
        "-- Whether ingame videos should be played for other players when triggered by one player\n",
        "config.shareVideos = " \o DisplayBool(settings.config.share_videos) \o "\n\n",
        "-- Whether the instanced spawn should be used instead of the noninstanced one\n",
        "config.useInstancedSpawn = " \o DisplayBool(settings.config.use_instanced_spawn) \o "\n\n",
        "-- Where players will be spawned if an instanced spawn is desired, with a different clean copy of\n",
        "-- this cell existing for each player\n",
        "-- Warning: Only interior cells can be instanced\n",
        "config.instancedSpawn = {\n",
        "    cellDescription = \"" \o settings.config.instanced_spawn.cell_description \o "\",\n",
        "    position = {" \o JoinFloats(settings.config.instanced_spawn.position) \o "},\n",
        "    rotation = {" \o JoinFloats(settings.config.instanced_spawn.rotation) \o "},\n",
        "    text = \"" \o settings.config.instanced_spawn.text \o "\"\n",
        "}\n\n",
        "-- Where players will be spawned if an instanced spawn is not desired\n",
        "config.noninstancedSpawn = {\n",
        "    cellDescription = \"" \o settings.config.noninstanced_spawn.cell_description \o "\",\n",
        "    position = {" \o JoinFloats(settings.config.noninstanced_spawn.position) \o "},\n",
        "    rotation = {" \o JoinFloats(settings.config.noninstanced_spawn.rotation) \o "},\n",
        "    text = \"" \o settings.config.noninstanced_spawn.text \o "\"\n",
        "}\n\n",
        "-- The location that players respawn at, unless overridden below by other respawn options\n",
        "config.defaultRespawn = {\n",
        "    cellDescription = \"" \o settings.config.default_respawn.cell_description \o "\",\n",
        "    position = {" \o JoinFloats(settings.config.default_respawn.position) \o "},\n",
        "    rotation = {" \o JoinFloats(settings.config.default_respawn.rotation) \o "}\n",
        "}\n\n",
        "-- Whether the default respawn location should be ignored in favor of respawning the\n",
        "-- player at the nearest Imperial shrine\n",
        "config.respawnAtImperialShrine = " \o DisplayBool(settings.config.respawn_at_imperial_shrine) \o "\n\n",
        "-- Whether the default respawn location should be ignored in favor of respawning the\n",
        "-- player at the nearest Tribunal temple\n",
        "-- Note: When both this and the Imperial shrine option are enabled, there is a 50%\n",
        "--       chance of the player being respawned at either\n",
        "config.respawnAtTribunalTemple = " \o DisplayBool(settings.config.respawn_at_tribunal_temple) \o "\n\n",
        "-- The cells that players are forbidden from entering, with any attempt to enter them\n",
        "-- transporting them to the last location in their previous cell\n",
        "config.forbiddenCells = {" \o JoinQuoted(settings.config.forbidden_cells) \o "}\n\n",
        "-- The maximum value that any attribute except Speed is allowed to have\n",
        "config.maxAttributeValue = " \o DisplayInt(settings.config.max_attribute_value) \o "\n\n",
        "-- The maximum value that Speed is allowed to have\n",
        "-- Note: Speed is given special treatment because of the Boots of Blinding Speed\n",
        "config.maxSpeedValue = " \o DisplayInt(settings.config.max_speed_value) \o "\n\n",
        "-- The maximum value that any skill except Acrobatics is allowed to have\n",
        "config.maxSkillValue = " \o DisplayInt(settings.config.max_skill_value) \o "\n\n",
        "-- The maximum value that Acrobatics is allowed to have\n",
        "-- Note: Acrobatics is given special treatment because of the Scroll of Icarian Flight\n",
        "config.maxAcrobaticsValue = " \o DisplayInt(settings.config.max_acrobatics_value) \o "\n\n",
        "-- Allow modifier values to bypass allowed skill values\n",
        "config.ignoreModifierWithMaxSkill = " \o DisplayBool(settings.config.ignore_modifier_with_max_skill) \o "\n\n",
        "-- The refIds of items that players are not allowed to equip for balancing reasons\n",
        "config.bannedEquipmentItems = {" \o JoinQuoted(settings.config.banned_equipment_items) \o "}\n\n",
        "-- Whether players should respawn when dying\n",
        "config.playersRespawn = " \o DisplayBool(settings.config.players_respawn) \o "\n\n",
        "-- Time to stay dead before being respawned, in seconds\n",
        "config.deathTime = " \o DisplayInt(settings.config.death_time) \o "\n\n",
        "-- The number of days spent in jail as a penalty for dying, when respawning\n",
        "config.deathPenaltyJailDays = " \o DisplayInt(settings.config.death_penalty_jail_days) \o "\n\n",
        "-- Whether players' bounties are reset to 0 after dying\n",
        "config.bountyResetOnDeath = " \o DisplayBool(settings.config.bounty_reset_on_death) \o "\n\n",
        "-- Whether players spend time in jail proportional to their bounty after dying\n",
        "-- Note: If deathPenaltyJailDays is also enabled, that penalty will be added to\n",
        "--       this one\n",
        "config.bountyDeathPenalty = " \o DisplayBool(settings.config.bounty_death_penalty) \o "\n\n",
        "-- Whether players should be allowed to use the /suicide command\n",
        "config.allowSuicideCommand = " \o DisplayBool(settings.config.allow_suicide_command) \o "\n\n",
        "-- Whether players should be allowed to use the /fixme command\n",
        "config.allowFixmeCommand = " \o DisplayBool(settings.config.allow_fixme_command) \o "\n\n",
        "-- How many seconds need to pass between uses of the /fixme command by a player\n",
        "config.fixmeInterval = " \o DisplayInt(settings.config.fixme_interval) \o "\n\n",
        "-- The colors used for different ranks on the server\n",
        "config.rankColors = { serverOwner = color." \o settings.config.rank_colors.server_owner \o ", admin = color." \o settings.config.rank_colors.admin \o ", moderator = color." \o settings.config.rank_colors.moderator \o " }\n\n",
        "-- What the difference in ping needs to be in favor of a new arrival to a cell or region\n",
        "-- compared to that cell or region's current player authority for the new arrival to become\n",
        "-- the authority there\n",
        "-- Note: Setting this too low will lead to constant authority changes which cause more lag\n",
        "config.pingDifferenceRequiredForAuthority = " \o DisplayInt(settings.config.ping_difference_required_for_authority) \o "\n\n",
        "-- The log level enforced on clients by default, determining how much debug information\n",
        "-- is displayed in their debug window and logs\n",
        "-- Note 1: Set this to -1 to allow clients to use whatever log level they have set in\n",
        "--         their client settings\n",
        "-- Note 2: If you set this to 0 or 1, clients will be able to read about the movements\n",
        "--         and actions of other players that they would otherwise not know about,\n",
        "--         while also incurring a framerate loss on highly populated servers\n",
        "config.enforcedLogLevel = " \o DisplayInt(settings.config.enforced_log_level) \o "\n\n",
        "-- The physics framerate used by default\n",
        "-- Note: In OpenMW, the physics framerate is 60 by default\n",
        "config.physicsFramerate = " \o DisplayInt(settings.config.physics_framerate) \o "\n\n",
        "-- Whether players are allowed to interact with containers located in unloaded cells.\n",
        "config.allowOnContainerForUnloadedCells = " \o DisplayBool(settings.config.allow_on_container_for_unloaded_cells) \o "\n\n",
        "-- Whether players should collide with other actors\n",
        "config.enablePlayerCollision = " \o DisplayBool(settings.config.enable_player_collision) \o "\n\n",
        "-- Whether actors should collide with other actors\n",
        "config.enableActorCollision = " \o DisplayBool(settings.config.enable_actor_collision) \o "\n\n",
        "-- Whether placed objects should collide with actors\n",
        "config.enablePlacedObjectCollision = " \o DisplayBool(settings.config.enable_placed_object_collision) \o "\n\n",
        "-- Enforce collision for certain placed object refIds even when enablePlacedObjectCollision\n",
        "-- is false\n",
        "config.enforcedCollisionRefIds = {" \o JoinQuoted(settings.config.enforced_collision_ref_ids) \o "}\n\n",
        "-- Whether placed object collision (when turned on) resembles actor collision, in that it\n",
        "-- prevents players from standing on top of the placed objects without slipping\n",
        "config.useActorCollisionForPlacedObjects = " \o DisplayBool(settings.config.use_actor_collision_for_placed_objects) \o "\n\n",
        "-- The maximum scale that objects are allowed to have\n",
        "config.maximumObjectScale = " \o DisplayFloat(settings.config.maximum_object_scale) \o "\n\n",
        "-- Whether data files should be enforced\n",
        "config.enforceDataFiles = " \o DisplayBool(settings.config.enforce_data_files) \o "\n"
    >>)

\* The record parse_server_settings starts from.
SettingsDefaults ==
    [config |->
        [game_mode |-> "Default",
         login_time |-> 60,
         max_clients_per_ip |-> 3,
         difficulty |-> 0,
         game_settings |-> <<>>,
         vr_settings |-> <<>>,
         default_time_table |-> [year |-> 427, month |-> 7, day |-> 16, hour |-> 9, days_passed |-> 1, day_time_scale |-> 30, night_time_scale |-> 40],
         world_startup_scripts |-> <<>>,
         player_startup_scripts |-> <<>>,
         pass_time_when_empty |-> FALSE,
         night_start_hour |-> 20,
         night_end_hour |-> 6,
         allow_console |-> FALSE,
         allow_bed_rest |-> TRUE,
         allow_wilderness_rest |-> TRUE,
         allow_wait |-> TRUE,
         share_journal |-> TRUE,
         share_faction_ranks |-> TRUE,
         share_faction_expulsion |-> FALSE,
         share_faction_reputation |-> TRUE,
         share_topics |-> TRUE,
         share_bounty |-> FALSE,
         share_reputation |-> TRUE,
         share_map_exploration |-> FALSE,
         share_videos |-> TRUE,
         use_instanced_spawn |-> TRUE,
         instanced_spawn |-> [cell_description |-> "Seyda Neen, Census and Excise Office", position |-> <<"1130.3388671875", "-387.14947509766", "193">>, rotation |-> <<"0.09375", "1.5078122615814">>, text |-> "Multiplayer skips several minutes of the game's introduction and places you at the first quest giver."],
         noninstanced_spawn |-> [cell_description |-> "-3, -2", position |-> <<"-23894", "-15079", "505">>, rotation |-> <<"0", "1.2">>, text |-> "Multiplayer skips over the original character generation."],
         default_respawn |-> [cell_description |-> "Balmora, Temple", position |-> <<"4700.5673828125", "3874.7416992188", "14758.990234375">>, rotation |-> <<"0.25314688682556", "1.570611000061">>],
         respawn_at_imperial_shrine |-> TRUE,
         respawn_at_tribunal_temple |-> TRUE,
         forbidden_cells |-> <<>>,
         max_attribute_value |-> 200,
         max_speed_value |-> 365,
         max_skill_value |-> 200,
         max_acrobatics_value |-> 1200,
         ignore_modifier_with_max_skill |-> FALSE,
         banned_equipment_items |-> <<>>,
         players_respawn |-> TRUE,
         death_time |-> 5,
         death_penalty_jail_days |-> 5,
         bounty_reset_on_death |-> FALSE,
         bounty_death_penalty |-> FALSE,
         allow_suicide_command |-> TRUE,
         allow_fixme_command |-> TRUE,
         fixme_interval |-> 30,
         rank_colors |-> [server_owner |-> "Orange", admin |-> "Red", moderator |-> "Green"],
         ping_difference_required_for_authority |-> 40,
         enforced_log_level |-> -1,
         physics_framerate |-> 60,
         allow_on_container_for_unloaded_cells |-> FALSE,
         enable_player_collision |-> TRUE,
         enable_actor_collision |-> TRUE,
         enable_placed_object_collision |-> FALSE,
         enforced_collision_ref_ids |-> <<>>,
         use_actor_collision_for_placed_objects |-> FALSE,
         maximum_object_scale |-> "2",
         enforce_data_files |-> FALSE]]

\* The match arms of parse_simple_value: the field and the literal of each key.
SimpleKeys ==
    ("gameMode" :> [field |-> "game_mode", literal |-> "string"])
    @@ ("loginTime" :> [field |-> "login_time", literal |-> "number"])
    @@ ("maxClientsPerIP" :> [field |-> "max_clients_per_ip", literal |-> "number"])
    @@ ("difficulty" :> [field |-> "difficulty", literal |-> "number"])
    @@ ("passTimeWhenEmpty" :> [field |-> "pass_time_when_empty", literal |-> "bool"])
    @@ ("nightStartHour" :> [field |-> "night_start_hour", literal |-> "number"])
    @@ ("nightEndHour" :> [field |-> "night_end_hour", literal |-> "number"])
    @@ ("allowConsole" :> [field |-> "allow_console", literal |-> "bool"])
    @@ ("allowBedRest" :> [field |-> "allow_bed_rest", literal |-> "bool"])
    @@ ("allowWildernessRest" :> [field |-> "allow_wilderness_rest", literal |-> "bool"])
    @@ ("allowWait" :> [field |-> "allow_wait", literal |-> "bool"])
    @@ ("shareJournal" :> [field |-> "share_journal", literal |-> "bool"])
    @@ ("shareFactionRanks" :> [field |-> "share_faction_ranks", literal |-> "bool"])
    @@ ("shareFactionExpulsion" :> [field |-> "share_faction_expulsion", literal |-> "bool"])
    @@ ("shareFactionReputation" :> [field |-> "share_faction_reputation", literal |-> "bool"])
    @@ ("shareTopics" :> [field |-> "share_topics", literal |-> "bool"])
    @@ ("shareBounty" :> [field |-> "share_bounty", literal |-> "bool"])
    @@ ("shareReputation" :> [field |-> "share_reputation", literal |-> "bool"])
    @@ ("shareMapExploration" :> [field |-> "share_map_exploration", literal |-> "bool"])
    @@ ("shareVideos" :> [field |-> "share_videos", literal |-> "bool"])
    @@ ("useInstancedSpawn" :> [field |-> "use_instanced_spawn", literal |-> "bool"])
    @@ ("respawnAtImperialShrine" :> [field |-> "respawn_at_imperial_shrine", literal |-> "bool"])
    @@ ("respawnAtTribunalTemple" :> [field |-> "respawn_at_tribunal_temple", literal |-> "bool"])
    @@ ("maxAttributeValue" :> [field |-> "max_attribute_value", literal |-> "number"])
    @@ ("maxSpeedValue" :> [field |-> "max_speed_value", literal |-> "number"])
    @@ ("maxSkillValue" :> [field |-> "max_skill_value", literal |-> "number"])
    @@ ("maxAcrobaticsValue" :> [field |-> "max_acrobatics_value", literal |-> "number"])
    @@ ("ignoreModifierWithMaxSkill" :> [field |-> "ignore_modifier_with_max_skill", literal |-> "bool"])
    @@ ("playersRespawn" :> [field |-> "players_respawn", literal |-> "bool"])
    @@ ("deathTime" :> [field |-> "death_time", literal |-> "number"])
    @@ ("deathPenaltyJailDays" :> [field |-> "death_penalty_jail_days", literal |-> "number"])
    @@ ("bountyResetOnDeath" :> [field |-> "bounty_reset_on_death", literal |-> "bool"])
    @@ ("bountyDeathPenalty" :> [field |-> "bounty_death_penalty", literal |-> "bool"])
    @@ ("allowSuicideCommand" :> [field |-> "allow_suicide_command", literal |-> "bool"])
    @@ ("allowFixmeCommand" :> [field |-> "allow_fixme_command", literal |-> "bool"])
    @@ ("fixmeInterval" :> [field |-> "fixme_interval", literal |-> "number"])
    @@ ("pingDifferenceRequiredForAuthority" :> [field |-> "ping_difference_required_for_authority", literal |-> "number"])
    @@ ("enforcedLogLevel" :> [field |-> "enforced_log_level", literal |-> "number"])
    @@ ("physicsFramerate" :> [field |-> "physics_framerate", literal |-> "number"])
    @@ ("allowOnContainerForUnloadedCells" :> [field |-> "allow_on_container_for_unloaded_cells", literal |-> "bool"])
    @@ ("enablePlayerCollision" :> [field |-> "enable_player_collision", literal |-> "bool"])
    @@ ("enableActorCollision" :> [field |-> "enable_actor_collision", literal |-> "bool"])
    @@ ("enablePlacedObjectCollision" :> [field |-> "enable_placed_object_collision", literal |-> "bool"])
    @@ ("useActorCollisionForPlacedObjects" :> [field |-> "use_actor_collision_for_placed_objects", literal |-> "bool"])
    @@ ("maximumObjectScale" :> [field |-> "maximum_object_scale", literal |-> "float"])
    @@ ("enforceDataFiles" :> [field |-> "enforce_data_files", literal |-> "bool"])

(***************************************************************************)
(* Settings Script Codec: parse_server_settings.                           *)
(***************************************************************************)
I32Max == 2147483647

\* <i32 as FromStr>: an optional sign, then digits; the model has no
\* -2147483648.
ParseInt(s) ==
    LET negative == starts_with(s, "-")
        digits == IF negative \/ starts_with(s, "+") THEN From(s, 2) ELSE s
        magnitude == IF IsDigits(digits) THEN Accumulate(digits, 0, I32Max) ELSE None
    IN  IF magnitude = None THEN None
        ELSE Some(IF negative THEN 0 - magnitude[1] ELSE magnitude[1])

\* s without the zeros at its start / at its end
RECURSIVE StripLeft(_)
StripLeft(s) == IF starts_with(s, "0") THEN StripLeft(From(s, 2)) ELSE s
RECURSIVE StripRight(_)
StripRight(s) == IF ends_with(s, "0") THEN StripRight(Slice(s, 0, Len(s) - 1)) ELSE s

\* <f64 as FromStr> on decimals: an optional sign, digits, an optional point
\* and digits, one digit at least. Exponents, "inf" and "nan" are not in the
\* model. The value is the decimal without its needless zeros.
ParseFloat(s) ==
    LET negative == starts_with(s, "-")
        unsigned == IF negative \/ starts_with(s, "+") THEN From(s, 2) ELSE s
        point == find(unsigned, ".")
        whole == IF point = None THEN unsigned ELSE Slice(unsigned, 0, point[1])
        fraction == IF point = None THEN "" ELSE From(unsigned, point[1] + 2)
        AllDigits(d) == d = "" \/ IsDigits(d)
        w == IF StripLeft(whole) = "" THEN "0" ELSE StripLeft(whole)
        f == StripRight(fraction)
    IN  IF ~AllDigits(whole) \/ ~AllDigits(fraction) \/ whole \o fraction = "" THEN None
        ELSE Some((IF negative THEN "-" ELSE "") \o w \o (IF f = "" THEN "" ELSE "." \o f))

Ok(value) == [ok |-> TRUE, value |-> value]
Err(error) == [ok |-> FALSE, error |-> error]

parse_string_value(value) ==
    IF starts_with(value, "\"") /\ ends_with(value, "\"")
    THEN Ok(Slice(value, 1, Len(value) - 1)) ELSE Ok(value)

parse_number_value(value) ==
    IF ParseInt(value) = None THEN Err("Failed to parse number '" \o value \o "'")
    ELSE Ok(ParseInt(value)[1])

parse_float_value(value) ==
    IF ParseFloat(value) = None THEN Err("Failed to parse float '" \o value \o "'")
    ELSE Ok(ParseFloat(value)[1])

parse_bool_value(value) ==
    CASE value = "true" -> Ok(TRUE)
      [] value = "false" -> Ok(FALSE)
      [] OTHER -> Err("Invalid boolean value: " \o value)

parse_simple_value(key, value, config) ==
    IF key \notin DOMAIN SimpleKeys THEN [ok |-> TRUE, config |-> config]
    ELSE LET literal == SimpleKeys[key].literal
             parsed == CASE literal = "string" -> parse_string_value(value)
                         [] literal = "number" -> parse_number_value(value)
                         [] literal = "float" -> parse_float_value(value)
                         [] literal = "bool" -> parse_bool_value(value)
         IN  IF ~parsed.ok THEN parsed
             ELSE [ok |-> TRUE,
                   config |-> [config EXCEPT ![SimpleKeys[key].field] = parsed.value]]

RECURSIVE Flatten(_)
Flatten(vs) == IF vs = <<>> THEN <<>> ELSE Head(vs) \o Flatten(Tail(vs))

\* One entry of parse_game_settings_table, as the list of what it pushes.
GameSettingEntry(e) ==
    LET entry == trim(e)
        parts == split(trim(From(entry, 2)), ",")
        name_part == trim(parts[1])
        value_part == trim(parts[2])
        val_str == From(value_part, 9)
        value == IF ~starts_with(value_part, "value = ") THEN JString(value_part)
                 ELSE IF val_str = "true" THEN JBool(TRUE)
                 ELSE IF val_str = "false" THEN JBool(FALSE)
                 ELSE IF ParseInt(val_str) # None THEN JNumber(ParseInt(val_str)[1])
                 ELSE JString(val_str)
    IN  IF entry = "" \/ ~starts_with(entry, "{") THEN <<>>
        ELSE IF Len(parts) < 2 THEN <<>>
        ELSE IF starts_with(name_part, "name = \"") /\ ends_with(name_part, "\"")
        THEN <<[name |-> Slice(name_part, 8, Len(name_part) - 1), value |-> value]>>
        ELSE <<>>

parse_game_settings_table(content) ==
    LET entries == split(content, "}")
    IN  Ok(Flatten([i \in 1..Len(entries) |-> GameSettingEntry(entries[i])]))

\* One entry of parse_vr_settings_table, as the list of what it pushes.
VrSettingEntry(e) ==
    LET entry == trim(e)
        parts == split(trim(From(entry, 2)), ",")
        name_part == trim(parts[1])
        value_part == trim(parts[2])
        value == ParseFloat(From(value_part, 9))
    IN  IF entry = "" \/ ~starts_with(entry, "{") THEN <<>>
        ELSE IF Len(parts) < 2 THEN <<>>
        ELSE IF /\ starts_with(name_part, "name = \"") /\ ends_with(name_part, "\"")
                /\ starts_with(value_part, "value = ") /\ value # None
        THEN <<[name |-> Slice(name_part, 8, Len(name_part) - 1), value |-> value[1]]>>
        ELSE <<>>

parse_vr_settings_table(content) ==
    LET entries == split(content, "}")
    IN  Ok(Flatten([i \in 1..Len(entries) |-> VrSettingEntry(entries[i])]))

parse_string_array(content0) ==
    LET content == trim(content0)
        parts == split(Slice(content, 1, Len(content) - 1), ",")
        Item(part) == IF starts_with(part, "\"") /\ ends_with(part, "\"")
                      THEN Slice(part, 1, Len(part) - 1) ELSE part
    IN  IF starts_with(content, "{") /\ ends_with(content, "}")
        THEN Ok([i \in 1..Len(parts) |-> Item(trim(parts[i]))])
        ELSE Ok(<<>>)

\* The keys of the four record tables, with the field and the literal of each,
\* and the record each parser starts from.
RecordTables ==
    [time_table |->
        [keys |-> ("year" :> [field |-> "year", literal |-> "number"])
                  @@ ("month" :> [field |-> "month", literal |-> "number"])
                  @@ ("day" :> [field |-> "day", literal |-> "number"])
                  @@ ("hour" :> [field |-> "hour", literal |-> "number"])
                  @@ ("daysPassed" :> [field |-> "days_passed", literal |-> "number"])
                  @@ ("dayTimeScale" :> [field |-> "day_time_scale", literal |-> "number"])
                  @@ ("nightTimeScale" :> [field |-> "night_time_scale", literal |-> "number"]),
         start |-> [year |-> 427, month |-> 7, day |-> 16, hour |-> 9, days_passed |-> 1,
                    day_time_scale |-> 30, night_time_scale |-> 40]],
     spawn_location |->
        [keys |-> ("cellDescription" :> [field |-> "cell_description", literal |-> "string"])
                  @@ ("position" :> [field |-> "position", literal |-> "coords"])
                  @@ ("rotation" :> [field |-> "rotation", literal |-> "coords"])
                  @@ ("text" :> [field |-> "text", literal |-> "string"]),
         start |-> [cell_description |-> "", position |-> <<>>, rotation |-> <<>>,
                    text |-> ""]],
     respawn_location |->
        [keys |-> ("cellDescription" :> [field |-> "cell_description", literal |-> "string"])
                  @@ ("position" :> [field |-> "position", literal |-> "coords"])
                  @@ ("rotation" :> [field |-> "rotation", literal |-> "coords"]),
         start |-> [cell_description |-> "", position |-> <<>>, rotation |-> <<>>]],
     rank_colors |->
        [keys |-> ("serverOwner" :> [field |-> "server_owner", literal |-> "string"])
                  @@ ("admin" :> [field |-> "admin", literal |-> "string"])
                  @@ ("moderator" :> [field |-> "moderator", literal |-> "string"]),
         start |-> [server_owner |-> "Orange", admin |-> "Red", moderator |-> "Green"]]]

\* for part in content.split(','): the loop of parse_time_table,
\* parse_spawn_location, parse_respawn_location and parse_rank_colors, from
\* part i on.
RECURSIVE ParseParts(_, _, _, _)
ParseParts(parts, i, keys, record) ==
    IF i > Len(parts) THEN Ok(record)
    ELSE LET part == trim(parts[i])
             eq_pos == find(part, "=")
             key == trim(Slice(part, 0, eq_pos[1]))
             value == trim(From(part, eq_pos[1] + 2))
             coords == split(Slice(value, 1, Len(value) - 1), ",")
             parsed == CASE keys[key].literal = "number" -> parse_number_value(value)
                         [] keys[key].literal = "string" -> parse_string_value(value)
                         [] keys[key].literal = "coords" ->
                                IF starts_with(value, "{") /\ ends_with(value, "}")
                                THEN Ok([j \in 1..Len(coords) |->
                                            unwrap_or(ParseFloat(trim(coords[j])), "0")])
                                ELSE Ok(record[keys[key].field])
         IN  IF eq_pos = None \/ key \notin DOMAIN keys THEN ParseParts(parts, i + 1, keys, record)
             ELSE IF ~parsed.ok THEN parsed
             ELSE ParseParts(parts, i + 1, keys,
                             [record EXCEPT ![keys[key].field] = parsed.value])

ParseRecordTable(content, table) ==
    ParseParts(split(content, ","), 1, RecordTables[table].keys, RecordTables[table].start)

\* The match arms of parse_table_content: the field and the parser of each
\* table name.
TableKeys ==
    ("gameSettings" :> [field |-> "game_settings", parser |-> "game_settings"])
    @@ ("vrSettings" :> [field |-> "vr_settings", parser |-> "vr_settings"])
    @@ ("defaultTimeTable" :> [field |-> "default_time_table", parser |-> "time_table"])
    @@ ("worldStartupScripts" :> [field |-> "world_startup_scripts", parser |-> "string_array"])
    @@ ("playerStartupScripts" :> [field |-> "player_startup_scripts", parser |-> "string_array"])
    @@ ("forbiddenCells" :> [field |-> "forbidden_cells", parser |-> "string_array"])
    @@ ("bannedEquipmentItems" :> [field |-> "banned_equipment_items", parser |-> "string_array"])
    @@ ("enforcedCollisionRefIds" :>
            [field |-> "enforced_collision_ref_ids", parser |-> "string_array"])
    @@ ("instancedSpawn" :> [field |-> "instanced_spawn", parser |-> "spawn_location"])
    @@ ("noninstancedSpawn" :> [field |-> "noninstanced_spawn", parser |-> "spawn_location"])
    @@ ("defaultRespawn" :> [field |-> "default_respawn", parser |-> "respawn_location"])
    @@ ("rankColors" :> [field |-> "rank_colors", parser |-> "rank_colors"])

parse_table_content(content, table_name, config) ==
    IF table_name \notin DOMAIN TableKeys THEN [ok |-> TRUE, config |-> config]
    ELSE LET parser == TableKeys[table_name].parser
             parsed == CASE parser = "game_settings" -> parse_game_settings_table(content)
                         [] parser = "vr_settings" -> parse_vr_settings_table(content)
                         [] parser = "string_array" -> parse_string_array(content)
                         [] OTHER -> ParseRecordTable(content, parser)
         IN  IF ~parsed.ok THEN parsed
             ELSE [ok |-> TRUE,
                   config |-> [config EXCEPT ![TableKeys[table_name].field] = parsed.value]]

\* trimmed[6..eq_pos].trim()
KeySlice(trimmed, eq_pos) == trim(Slice(trimmed, 6, eq_pos))

\* The body of `while let Some(line) = lines.next()` on one line, from the
\* loop's variables to the loop's variables; `error` is the Err a `?` has
\* returned, after which no line is read.
SettingsLine(st, line) ==
    LET trimmed == trim(line)
        eq_pos == find(trimmed, "=")[1]
        key == KeySlice(trimmed, eq_pos)
        value == trim(From(trimmed, eq_pos + 2))
        single == parse_table_content(Slice(value, 1, Len(value) - 1), key, st.config)
        content == trim(From(value, 2))
        simple == parse_simple_value(key, value, st.config)
        closed == parse_table_content(join(st.table_content, " "), st.current_table_name,
                                      st.config)
        Failed(parsed) == [st EXCEPT !.error = Some(parsed.error)]
    IN  IF st.error # None THEN st
        ELSE IF trimmed = "" \/ starts_with(trimmed, "--") THEN st
        ELSE IF starts_with(trimmed, "config.") /\ contains(trimmed, "=")
        THEN IF starts_with(value, "{")
             THEN IF ends_with(value, "}")
                  THEN IF ~single.ok THEN Failed(single)
                       ELSE [st EXCEPT !.in_table = FALSE, !.current_table_name = key,
                                       !.table_content = <<>>, !.config = single.config]
                  ELSE [st EXCEPT !.in_table = TRUE, !.current_table_name = key,
                                  !.table_content = IF content = "" THEN <<>>
                                                    ELSE <<content>>]
             ELSE IF ~simple.ok THEN Failed(simple)
                  ELSE [st EXCEPT !.config = simple.config]
        ELSE IF st.in_table
        THEN IF trimmed = "}"
             THEN IF ~closed.ok THEN Failed(closed)
                  ELSE [st EXCEPT !.in_table = FALSE, !.table_content = <<>>,
                                  !.config = closed.config]
             ELSE [st EXCEPT !.table_content = Append(st.table_content, trimmed)]
        ELSE st

\* The loop over the lines lo..hi of v, in order, from the variables st: the
\* second half starts from the variables the first half ends with.
RECURSIVE SettingsLines(_, _, _, _)
SettingsLines(v, lo, hi, st) ==
    IF lo > hi THEN st
    ELSE IF lo = hi THEN SettingsLine(st, v[lo])
    ELSE LET mid == (lo + hi) \div 2
         IN  CHOOSE end \in {SettingsLines(v, mid + 1, hi, first) :
                                first \in {SettingsLines(v, lo, mid, st)}} : TRUE

parse_server_settings(content) ==
    LET start == [in_table |-> FALSE, current_table_name |-> "", table_content |-> <<>>,
                  config |-> SettingsDefaults.config, error |-> None]
        Result(end) == IF end.error # None THEN Err(end.error[1])
                       ELSE Ok([config |-> end.config])
    IN  CHOOSE result \in {Result(SettingsLines(v, 1, Len(v), start)) :
                                v \in {lines(content)}} : TRUE

(***************************************************************************)
(* The commands on the settings script.                                    *)
(***************************************************************************)
get_tes3mp_server_settings ==
    /\ reply' = Some([cmd |-> "get_tes3mp_server_settings", before |-> settingsCfg,
                      result |-> IF settingsCfg = None
                                 THEN NotFound("TES3MP server settings file")
                                 ELSE parse_server_settings(settingsCfg[1])])
    /\ UNCHANGED <<configFile, exes, temp, procs, launchVars, clientCfg, serverCfg, settingsCfg>>

\* serde_json::from_value::<ServerSettings>(settings)
from_value(settings) ==
    IF "config" \in DOMAIN settings THEN Ok(settings)
    ELSE Err("Failed to parse settings JSON")

set_tes3mp_server_settings(settings) ==
    LET Reply(result) == reply' = Some([cmd |-> "set_tes3mp_server_settings",
                                        result |-> result])
        server_settings == from_value(settings)
    IN  /\ IF ~server_settings.ok
           THEN Reply(server_settings) /\ UNCHANGED settingsCfg
           ELSE \E written \in BOOLEAN :
                    IF written
                    THEN /\ settingsCfg' = Some(write_server_settings(server_settings.value))
                         /\ Reply(Ok(TRUE))
                    ELSE /\ Reply(Err("Failed to write TES3MP server settings"))
                         /\ UNCHANGED settingsCfg
        /\ UNCHANGED <<configFile, exes, temp, procs, launchVars, clientCfg, serverCfg>>

(***************************************************************************)
(* The config files the commands can find, and what the presentation layer *)
(* passes to them.                                                         *)
(***************************************************************************)
\* Every text of at most max of the given lines, ended "\n" or "\r\n" or not
\* ended, the last line too.
Texts(candidates, max) ==
    LET vs == UNION {[1..n -> candidates] : n \in 0..max}
    IN  {join(v, "\n") : v \in vs} \cup {join(v, "\n") \o "\n" : v \in vs}
            \cup {join(v, "\r\n") \o "\r\n" : v \in vs}

ClientLines ==
    {"[General]", "[Other]", "port = 25565", "  password=secret ", "# port = 1", ""}

ServerLines0 ==
    {"[General]", "[MasterServer]", "port = 7", "enabled = false", ""}

\* A server config with port under three headers, one of them of no section
\* the update knows.
ServerSample ==
    "[General]\nport = 7\nhostname = a\n[MasterServer]\nport = 8\n[Other]\nport = 9\n"

\* A server config with the twelve keys, as TES3MP ships it.
ServerFull ==
    "[General]\nlocalAddress = 0.0.0.0\nport = 25565\nmaximumPlayers = 64\n"
    \o "hostname = TES3MP server\nlogLevel = 1\npassword =\n"
    \o "[Plugins]\nhome = ./server\nplugins = serverCore.lua\n"
    \o "[MasterServer]\nenabled = true\naddress = master.tes3mp.com\nport = 25561\n"
    \o "rate = 10000\n"

ClientArgs == {[ip |-> "127.0.0.1", port |-> 25565, password |-> ""],
               [ip |-> "example.org", port |-> 7, password |-> "pw"]}

\* The two payloads of mode-switcher.tsx (a form and the reset to defaults),
\* a form with every field and numbers beyond u16 and u8, a payload for
\* another section, one for one port, and ones with a value of the wrong type.
ServerPatches ==
    {(<<"general", "localAddress">> :> JString("0.0.0.0"))
        @@ (<<"general", "port">> :> JNumber(25565))
        @@ (<<"general", "maximumPlayers">> :> JNumber(64))
        @@ (<<"general", "logLevel">> :> JNumber(1))
        @@ (<<"general", "password">> :> JString(""))
        @@ (<<"general", "hostname">> :> JString("TES3MP Server"))
        @@ (<<"masterServer", "enabled">> :> JBool(TRUE))
        @@ (<<"masterServer", "address">> :> JString("master.tes3mp.com"))
        @@ (<<"masterServer", "port">> :> JNumber(25561))
        @@ (<<"masterServer", "rate">> :> JNumber(10000)),
     (<<"general", "localAddress">> :> JString("127.0.0.1"))
        @@ (<<"general", "port">> :> JNumber(U16Max + 1))
        @@ (<<"general", "maximumPlayers">> :> JNumber(70000))
        @@ (<<"general", "logLevel">> :> JNumber(U8Max + 1))
        @@ (<<"general", "password">> :> JString("pw"))
        @@ (<<"general", "hostname">> :> JString("Vivec"))
        @@ (<<"plugins", "home">> :> JString("./srv"))
        @@ (<<"plugins", "plugins">> :> JString("core.lua"))
        @@ (<<"masterServer", "enabled">> :> JBool(FALSE))
        @@ (<<"masterServer", "address">> :> JString("example.org"))
        @@ (<<"masterServer", "port">> :> JNumber(25560))
        @@ (<<"masterServer", "rate">> :> JNumber(5000)),
     (<<"plugins", "home">> :> JString("./srv")),
     (<<"general", "port">> :> JNumber(8080)),
     (<<"general", "port">> :> JString("25565")),
     (<<"general", "port">> :> JNumber(-1)) @@ (<<"masterServer", "enabled">> :> JBool(FALSE))}

\* A settings record with an entry in every list and other scalars than the
\* defaults.
SettingsSample ==
    [config |->
        [SettingsDefaults.config EXCEPT
            !.login_time = 61,
            !.night_start_hour = 21,
            !.physics_framerate = 30,
            !.share_journal = FALSE,
            !.game_mode = "Roleplay",
            !.game_settings = <<[name |-> "difficulty", value |-> JNumber(0)]>>,
            !.vr_settings = <<[name |-> "realistic combat minimum swing velocity",
                               value |-> "1"]>>,
            !.world_startup_scripts = <<"Startup">>,
            !.player_startup_scripts = <<"VampireCheck">>,
            !.forbidden_cells = <<"ToddTest">>,
            !.banned_equipment_items = <<"helseth's ring">>,
            !.enforced_collision_ref_ids = <<"misc_uni_pillow_01">>]]

SettingsRecords == {SettingsDefaults, SettingsSample}

\* A list of two cells as a table on one line, and as the same table over
\* three lines, the last one the closing brace.
ForbiddenCellsOnOneLine == "config.forbiddenCells = {\"A\",\"B\"}\n"
ForbiddenCellsOnThreeLines == "config.forbiddenCells = {\"A\",\n\"B\"\n}\n"

\* The settings scripts found at the start: the empty one, ones with a few
\* keys, one with a value that is no number, the two with the list of cells.
SettingsTexts ==
    {"",
     "config.loginTime = 5\n",
     "-- Time\nconfig.nightStartHour = 21\nconfig.physicsFramerate = 30\n",
     "config.forbiddenCells = {\"ToddTest\"}\nconfig.loginTime = abc\n",
     ForbiddenCellsOnOneLine,
     ForbiddenCellsOnThreeLines}

InitFiles ==
    /\ configFile = NoFile /\ exes = {} /\ launches = <<>> /\ events = <<>>
    /\ temp = EmptyTemp /\ procs = <<>>
    /\ reply = None
    /\ settingsCfg = None
    /\ \/ clientCfg \in {Some(c) : c \in Texts(ClientLines, MaxLines)} /\ serverCfg = None
       \/ clientCfg = None
          /\ serverCfg \in {Some(c) : c \in Texts(ServerLines0, MaxServerLines)
                                            \cup {ServerSample, ServerFull}}

NextFiles ==
    \/ \E a \in ClientArgs : set_tes3mp_client_config(a.ip, a.port, a.password)
    \/ \E config \in ServerPatches : set_tes3mp_server_config(config)
    \/ get_tes3mp_server_config

SpecFiles == InitFiles /\ [][NextFiles]_vars

\* The server configs the parsers are given: the empty one, ones with some of
\* the keys, a key under no header and under another header, a value that is
\* no number.
ServerTexts ==
    {"",
     "[General]\nport = 7\n",
     "[MasterServer]\nport = 7\nenabled = false\n",
     "port = 7\nmaximumPlayers = 3",
     "[General]\r\nmaximumPlayers = many\r\nhostname = Vivec\r\n",
     "# port = 1\n[Plugins]\nport = 7\nhome = ./srv\n"}

InitParse ==
    /\ configFile = NoFile /\ exes = {} /\ launches = <<>> /\ events = <<>>
    /\ temp = EmptyTemp /\ procs = <<>>
    /\ reply = None
    /\ clientCfg = None
    /\ \/ serverCfg \in {Some(c) : c \in ServerTexts} /\ settingsCfg = None
       \/ serverCfg = None /\ settingsCfg \in {None} \cup {Some(c) : c \in SettingsTexts}

NextParse ==
    \/ get_tes3mp_server_config
    \/ \E settings \in SettingsRecords \cup {JNull} : set_tes3mp_server_settings(settings)
    \/ get_tes3mp_server_settings

SpecParse == InitParse /\ [][NextParse]_vars

(***************************************************************************)
(* Properties of the text config updates.                                  *)
(***************************************************************************)
\* What a line of a text config is, read by itself.
IsHeader(line) == starts_with(trim(line), "[") /\ ends_with(trim(line), "]")
IsEntry(line) ==
    /\ ~IsHeader(line)
    /\ trim(line) # "" /\ ~starts_with(trim(line), "#")
    /\ contains(line, "=")
KeyOf(line) == trim(Slice(line, 0, find(line, "=")[1]))
\* The section a line is in: the name in the nearest header above it.
SectionOf(v, i) ==
    LET above == {j \in 1..(i - 1) : IsHeader(v[j])}
    IN  IF above = {} THEN None
        ELSE LET h == trim(v[CHOOSE j \in above : \A k \in above : k <= j])
             IN  Some(Slice(h, 1, Len(h) - 1))
\* The lines of v that an update of the given <<section, key>> pairs targets.
TargetLines(v, keys) ==
    {i \in 1..Len(v) : /\ IsEntry(v[i])
                       /\ SectionOf(v, i) # None
                       /\ <<SectionOf(v, i)[1], KeyOf(v[i])>> \in keys}

ClientKeys == {<<"General", "destinationAddress">>, <<"General", "port">>,
               <<"General", "password">>}

\* The calls of set_tes3mp_client_config that found the file.
ClientUpdate == reply # None /\ reply[1].cmd = "set_tes3mp_client_config"
                    /\ reply[1].before # None
ServerUpdate == reply # None /\ reply[1].cmd = "set_tes3mp_server_config"
                    /\ reply[1].before # None

\* C6: when the client config has a target line, the updated file has as
\* many lines as the file had, and each line that is not a target line is the
\* same line at the same position.
C6_ClientUpdateKeepsOtherLines ==
    ClientUpdate =>
        LET in == lines(reply[1].before[1])
            out == lines(clientCfg[1])
        IN  TargetLines(in, ClientKeys) # {} =>
                /\ reply[1].result.ok
                /\ Len(out) = Len(in)
                /\ \A i \in 1..Len(in) :
                        i \notin TargetLines(in, ClientKeys) => out[i] = in[i]

\* C7: an update that matches no target line fails with the "no matching
\* keys" error and leaves the file as it was.
C7_NoMatchLeavesFile ==
    /\ ClientUpdate =>
            (TargetLines(lines(reply[1].before[1]), ClientKeys) = {} =>
                /\ reply[1].result = NoMatchingKeys
                /\ clientCfg = reply[1].before)
    /\ ServerUpdate =>
            (TargetLines(lines(reply[1].before[1]),
                         {<<k.section, k.key>> : k \in
                            {k \in ServerKeys : <<k.object, k.key>> \in DOMAIN reply[1].config}})
                = {} =>
                /\ reply[1].result = NoMatchingKeys
                /\ serverCfg = reply[1].before)

\* A server config with a line in [General] was given a patch for [Plugins].
C7_Witness ==
    /\ ServerUpdate
    /\ serverCfg = Some("[General]\nport = 7\n")
    /\ DOMAIN reply[1].config = {<<"plugins", "home">>}
    /\ reply[1].result = NoMatchingKeys

\* The line the update writes for key k of the patch, None when the patch has
\* no value of the key's type under it.
PatchLine(config, k) ==
    IF <<k.object, k.key>> \notin DOMAIN config THEN None
    ELSE LET v == config[<<k.object, k.key>>]
         IN  IF k.as = "str" /\ v.t = "string" THEN Some(k.key \o " = " \o v.str)
             ELSE IF k.as = "u64" /\ v.t = "number" /\ v.num >= 0
             THEN Some(k.key \o " = " \o Display(v.num))
             ELSE IF k.as = "bool" /\ v.t = "bool"
             THEN Some(k.key \o " = " \o DisplayBool(v.bool))
             ELSE None

\* C19: in the file a server update wrote, each line with a key is the line
\* of the patch when its section and key are one of the twelve and the patch
\* has a value for them, and is otherwise the line of the file before, at the
\* same position: so for a key the patch lacks, for a section the update does
\* not know, and for the same key under another header.
C19_ServerUpdateRewritesSupplied ==
    (ServerUpdate /\ reply[1].result.ok) =>
        LET in == lines(reply[1].before[1])
            out == lines(serverCfg[1])
            Patch(i) == {PatchLine(reply[1].config, k) : k \in
                            {k \in ServerKeys : /\ SectionOf(in, i) = Some(k.section)
                                                /\ KeyOf(in[i]) = k.key}} \ {None}
        IN  \A i \in 1..Len(in) :
                (IsEntry(in[i]) \/ IsHeader(in[i])) =>
                    /\ i <= Len(out)
                    /\ out[i] = IF IsEntry(in[i]) /\ Patch(i) # {}
                                THEN (CHOOSE line \in Patch(i) : TRUE)[1] ELSE in[i]

\* The port of [General] alone is patched: the port lines of [MasterServer]
\* and of [Other] and the hostname are as they were.
C19_Witness ==
    /\ ServerUpdate /\ reply[1].before = Some(ServerSample)
    /\ reply[1].config = (<<"general", "port">> :> JNumber(8080))
    /\ serverCfg = Some("[General]\nport = 8080\nhostname = a\n[MasterServer]\nport = 8\n"
                        \o "[Other]\nport = 9")

\* The field of the parsed record that holds the key k of ServerKeys.
ServerField(cfg, k) ==
    CASE k.section = "General" /\ k.key = "localAddress" -> cfg.general.local_address
      [] k.section = "General" /\ k.key = "port" -> cfg.general.port
      [] k.section = "General" /\ k.key = "maximumPlayers" -> cfg.general.maximum_players
      [] k.section = "General" /\ k.key = "hostname" -> cfg.general.hostname
      [] k.section = "General" /\ k.key = "logLevel" -> cfg.general.log_level
      [] k.section = "General" /\ k.key = "password" -> cfg.general.password
      [] k.section = "Plugins" /\ k.key = "home" -> cfg.plugins.home
      [] k.section = "Plugins" /\ k.key = "plugins" -> cfg.plugins.plugins
      [] k.section = "MasterServer" /\ k.key = "enabled" -> cfg.master_server.enabled
      [] k.section = "MasterServer" /\ k.key = "address" -> cfg.master_server.address
      [] k.section = "MasterServer" /\ k.key = "port" -> cfg.master_server.port
      [] k.section = "MasterServer" /\ k.key = "rate" -> cfg.master_server.rate

\* The value the patch has for the key k, as update_server_config_values
\* reads it.
PatchValue(config, k) ==
    LET v == config[<<k.object, k.key>>]
    IN  CASE k.as = "str" -> v.str
          [] k.as = "u64" -> v.num
          [] k.as = "bool" -> v.bool

\* The file has a line for each of the twelve keys, in its section.
HasAllKeys(content) ==
    LET v == lines(content)
    IN  \A k \in ServerKeys : TargetLines(v, {<<k.section, k.key>>}) # {}

\* C30: a server config with the twelve keys, updated with a patch and read
\* back at once, gives the value of the patch for every field the patch has.
C30_ServerConfigRoundTrip ==
    [][(/\ ServerUpdate /\ reply[1].result.ok /\ HasAllKeys(reply[1].before[1])
        /\ reply'[1].cmd = "get_tes3mp_server_config")
            => /\ reply'[1].result.ok
               /\ \A k \in ServerKeys :
                    ServerValue(reply[1].config, k) # None
                        => ServerField(reply'[1].result.value, k)
                                = PatchValue(reply[1].config, k)]_vars

\* The same round trip for the values that fit the fields: ports and players
\* up to 65535, log levels up to 255.
C30_RoundTripWithinWidth ==
    [][(/\ ServerUpdate /\ reply[1].result.ok /\ HasAllKeys(reply[1].before[1])
        /\ reply'[1].cmd = "get_tes3mp_server_config")
            => /\ reply'[1].result.ok
               /\ \A k \in ServerKeys :
                    (/\ ServerValue(reply[1].config, k) # None
                     /\ k.as = "u64" => PatchValue(reply[1].config, k)
                                            <= (IF k.key = "logLevel" THEN U8Max
                                                ELSE IF k.key = "rate" THEN U32Max
                                                ELSE U16Max))
                        => ServerField(reply'[1].result.value, k)
                                = PatchValue(reply[1].config, k)]_vars

(***************************************************************************)
(* Installer and Application Config Store: download_latest_windows_release *)
(* and set_mode.                                                           *)
(***************************************************************************)
\* What the release metadata gives as version and as download URL; "" is the
\* fallback of a query that failed.
Versions == {"", "0.8.1", "0.8.2"}
ReleaseUrl == "https://example.org/tes3mp.zip"
NextReleaseUrl == "https://example.org/tes3mp-0.8.2.zip"
Urls == {"", ReleaseUrl, NextReleaseUrl}
\* The metadata objects { url, version } the release endpoint serves, in the
\* order of their publication.
Releases == <<[version |-> "0.8.1", url |-> ReleaseUrl],
             [version |-> "0.8.2", url |-> NextReleaseUrl]>>
\* chrono::Utc::now().to_rfc3339(), as the number of the instant
Times == {2, 3}
\* The status codes the download is answered with.
Statuses == {200, 204, 404, 500}
\* The status check of Step 1 left out.
is_success_always(status) == TRUE
is_success(status) == status \in 200..299

\* temp_dir().join("tes3mp_extracted"), as the error texts display it.
ExtractPath == "tes3mp_extracted"

\* A directory entry of the extraction directory, in read_dir order.
Dir(name, files) == [name |-> name, is_dir |-> TRUE, files |-> files]
File(name) == [name |-> name, is_dir |-> FALSE, files |-> {}]

\* What an archive extracts to: the files of the extraction root and its
\* entries. The first has the executable in the root beside a folder that
\* would match; the second has it in a folder named in capitals, after a file
\* and a folder that do not match; the third has no matching folder; the
\* fourth has a matching folder without the executable; the fifth has the
\* payload folder alone, with the executable only.
Trees ==
    {[files |-> ExeNames, entries |-> <<Dir("tes3mp-extras", {"tes3mp.exe"})>>],
     [files |-> {}, entries |-> <<File("tes3mp.txt"), Dir("docs", {}),
                                  Dir("TES3MP.Win64", ExeNames)>>],
     [files |-> {"readme.txt"}, entries |-> <<Dir("docs", {}), File("tes3mp.zip"),
                                              Dir("bin", {"tes3mp.exe"})>>],
     [files |-> {}, entries |-> <<Dir("Tes3mp-docs", {"readme.txt"})>>],
     [files |-> {}, entries |-> <<Dir("tes3mp", {"tes3mp.exe"})>>]}

\* The bytes of a download: None when they are no zip archive.
Archives == {None} \cup {Some(t) : t \in Trees}

Upper == "ABCDEFGHIJKLMNOPQRSTUVWXYZ"
Lower == "abcdefghijklmnopqrstuvwxyz"
RECURSIVE to_lowercase(_)
to_lowercase(s) ==
    IF s = "" THEN ""
    ELSE LET at == find(Upper, Ch(s, 1))
         IN  (IF at = None THEN Ch(s, 1) ELSE Ch(Lower, at[1] + 1)) \o to_lowercase(From(s, 2))

\* {:?} of a Vec<String>
DebugList(v) == "[" \o join([i \in DOMAIN v |-> "\"" \o v[i] \o "\""], ", ") \o "]"

\* The loop of find_tes3mp_folder from entry i on, found_folders being the
\* names pushed so far: the first folder whose lowercased name starts with
\* tes3mp.
RECURSIVE FindFolder(_, _, _)
FindFolder(entries, i, found_folders) ==
    IF i > Len(entries)
    THEN Err("No TES3MP folder found in: " \o ExtractPath \o ". Available folders: "
             \o DebugList(found_folders))
    ELSE IF ~entries[i].is_dir THEN FindFolder(entries, i + 1, found_folders)
    ELSE IF starts_with(to_lowercase(entries[i].name), "tes3mp") THEN Ok(entries[i].name)
    ELSE FindFolder(entries, i + 1, Append(found_folders, entries[i].name))

find_tes3mp_folder(tree) == FindFolder(tree.entries, 1, <<>>)

\* The files of the folder of that name in the extraction directory; "" names
\* the extraction directory itself.
FolderFiles(tree, folder) ==
    IF folder = "" THEN tree.files
    ELSE UNION {tree.entries[i].files : i \in {j \in DOMAIN tree.entries :
                                                 tree.entries[j].is_dir
                                                 /\ tree.entries[j].name = folder}}
FolderExists(tree, folder) ==
    folder = "" \/ \E i \in DOMAIN tree.entries :
                        tree.entries[i].is_dir /\ tree.entries[i].name = folder

\* Steps 5 and 6 looking into the folders before the extraction root.
LocatePayloadInFoldersFirst(tree) ==
    LET found == find_tes3mp_folder(tree)
    IN  IF found.ok /\ "tes3mp.exe" \in FolderFiles(tree, found.value) THEN found
        ELSE IF "tes3mp.exe" \in tree.files THEN Ok("")
        ELSE IF ~found.ok THEN found
        ELSE Err("tes3mp.exe not found in: " \o ExtractPath \o "/" \o found.value)

\* Steps 5 and 6: the folder the payload is taken from.
LocatePayload(tree) ==
    IF "tes3mp.exe" \in tree.files THEN Ok("")
    ELSE LET found == find_tes3mp_folder(tree)
         IN  IF ~found.ok THEN found
             ELSE IF "tes3mp.exe" \notin FolderFiles(tree, found.value)
             THEN Err("tes3mp.exe not found in: " \o ExtractPath \o "/" \o found.value)
             ELSE found

\* Step 8 with the existing mode overwritten.
UpsertConfigAsPlayer(existing, path, version, now) ==
    CASE existing.kind = "NoFile" ->
            [ok |-> TRUE, config |-> NerevarConfig(path, version, now, Some("player"))]
      [] existing.kind = "Corrupt" ->
            [ok |-> FALSE, error |-> "Failed to parse existing config"]
      [] OTHER ->
            [ok |-> TRUE, config |-> NerevarConfig(path, version, now, Some("player"))]

\* Step 8: the record written to config.json, from the file as it was read.
UpsertConfig(existing, path, version, now) ==
    CASE existing.kind = "NoFile" ->
            [ok |-> TRUE, config |-> NerevarConfig(path, version, now, Some("player"))]
      [] existing.kind = "Corrupt" ->
            [ok |-> FALSE, error |-> "Failed to parse existing config"]
      [] OTHER ->
            [ok |-> TRUE,
             config |-> [existing EXCEPT !.tes3mp_path = path, !.version = version,
                                         !.last_updated = now,
                                         !.mode = IF @ = None THEN Some("player") ELSE @]]

\* set_mode stamping the record it rewrites.
ModeConfigRestamped(existing, mode, now) ==
    CASE existing.kind = "NoFile" ->
            [ok |-> TRUE, config |-> NerevarConfig("", "0.0.0", now, Some(mode))]
      [] existing.kind = "Corrupt" ->
            [ok |-> FALSE, error |-> "Failed to parse existing config"]
      [] OTHER ->
            [ok |-> TRUE, config |-> [existing EXCEPT !.mode = Some(mode), !.last_updated = now]]

\* set_mode: the record written to config.json, from the file as it was read.
ModeConfig(existing, mode, now) ==
    CASE existing.kind = "NoFile" ->
            [ok |-> TRUE, config |-> NerevarConfig("", "0.0.0", now, Some(mode))]
      [] existing.kind = "Corrupt" ->
            [ok |-> FALSE, error |-> "Failed to parse existing config"]
      [] OTHER ->
            [ok |-> TRUE, config |-> [existing EXCEPT !.mode = Some(mode)]]

InPermanent == {e \in exes : e[1] = PermanentPath}

\* A command of the store as it starts: its position, its argument and its
\* locals. version and url are the locals of Step 0, queried tells which of
\* its two requests gave the field; status is the status of the response of
\* Step 1, when there was one; folder is the local of Steps 5 and 6,
\* existing the config file as the command read it and config the record it
\* is about to write.
Proc(cmd, mode) ==
    [cmd |-> cmd, pc |-> IF cmd = "set_mode" THEN "read config" ELSE "query release",
     mode |-> mode, queried |-> <<>>, version |-> "", url |-> "", status |-> None,
     folder |-> None,
     existing |-> None, config |-> None, result |-> None]

At(p, cmd, pc) == procs[p].cmd = cmd /\ procs[p].pc = pc

\* The command returns result; before is the config file as the command read
\* it, or as it is when the command returns without having read it.
Returned(proc, result) == [proc EXCEPT !.pc = "done", !.result = Some(result)]
Return(p, result) ==
    /\ procs' = [procs EXCEPT ![p] = Returned(@, result)]
    /\ reply' = Some([cmd |-> procs[p].cmd,
                      before |-> IF procs[p].existing = None THEN configFile
                                 ELSE procs[p].existing[1],
                      version |-> procs[p].version, mode |-> procs[p].mode,
                      result |-> result])

\* Step 0: NEREVAR_API_URL is read with expect, as run read it before any
\* command, so it is set; then the version and the URL are asked for in two
\* requests; a request that fails, a body that is no JSON and a body without
\* the field all give "".
QueryRelease(p) ==
    /\ At(p, "download_latest_windows_release", "query release")
    /\ UNCHANGED <<configFile, exes, temp, reply, launchVars, clientCfg, serverCfg, settingsCfg>>
    /\ \E version_response, url_response \in {"error", "no json", "no field", "json"} :
       \E first \in DOMAIN Releases : \E second \in first..Len(Releases) :
        procs' = [procs EXCEPT
                    ![p].pc = "download",
                    ![p].queried = <<version_response = "json", url_response = "json">>,
                    ![p].version = IF version_response = "json"
                                   THEN Releases[first].version ELSE "",
                    ![p].url = IF url_response = "json" THEN Releases[second].url ELSE ""]

\* Steps 1 and 2: the request, the status check, the body, and fs::write of
\* the archive, which may leave a file behind when it fails.
Download(p) ==
    /\ At(p, "download_latest_windows_release", "download")
    /\ UNCHANGED <<configFile, exes, launchVars, clientCfg, serverCfg, settingsCfg>>
    /\ \E response \in {None} \cup {Some(s) : s \in Statuses},
          bytes \in {None} \cup {Some(a) : a \in Archives}, written \in BOOLEAN :
        LET ReturnAnswered(result) ==
                /\ procs' = [procs EXCEPT ![p] = Returned([@ EXCEPT !.status = response],
                                                          result)]
                /\ reply' = Some([cmd |-> procs[p].cmd, before |-> configFile,
                                  version |-> procs[p].version, mode |-> procs[p].mode,
                                  result |-> result])
        IN  IF procs[p].url = "" \/ response = None
            THEN Return(p, Err("Failed to download file")) /\ UNCHANGED temp
            ELSE IF ~is_success(response[1])
            THEN ReturnAnswered(Err("Download failed with status")) /\ UNCHANGED temp
            ELSE IF bytes = None
            THEN ReturnAnswered(Err("Failed to read response bytes")) /\ UNCHANGED temp
            ELSE IF ~written
            THEN /\ ReturnAnswered(Err("Failed to save zip file"))
                 /\ temp' \in {temp, [temp EXCEPT !.zip = Some(None)]}
            ELSE /\ procs' = [procs EXCEPT ![p].pc = "extract", ![p].status = response]
                 /\ temp' = [temp EXCEPT !.zip = bytes]
                 /\ UNCHANGED reply

\* Step 3: the archive is opened and read, an extraction directory left by an
\* earlier run is removed, and the archive is extracted; an extraction that
\* fails leaves what it had extracted.
Extract(p) ==
    /\ At(p, "download_latest_windows_release", "extract")
    /\ UNCHANGED <<configFile, exes, launchVars, clientCfg, serverCfg, settingsCfg>>
    /\ \E opened, removed, extracted \in BOOLEAN :
        IF temp.zip = None \/ ~opened
        THEN Return(p, Err("Failed to open zip file")) /\ UNCHANGED temp
        ELSE IF temp.zip[1] = None
        THEN Return(p, Err("Failed to read zip archive")) /\ UNCHANGED temp
        ELSE IF temp.extracted # None /\ ~removed
        THEN Return(p, Err("Failed to remove existing extraction directory")) /\ UNCHANGED temp
        ELSE IF ~extracted
        THEN /\ Return(p, Err("Failed to extract zip file"))
             /\ temp' \in {[temp EXCEPT !.extracted = None],
                           [temp EXCEPT !.extracted = Some([files |-> {}, entries |-> <<>>])]}
        ELSE /\ procs' = [procs EXCEPT ![p].pc = "delete zip"]
             /\ temp' = [temp EXCEPT !.extracted = Some(temp.zip[1][1])]
             /\ UNCHANGED reply

\* Step 4
DeleteZip(p) ==
    /\ At(p, "download_latest_windows_release", "delete zip")
    /\ UNCHANGED <<configFile, exes, launchVars, clientCfg, serverCfg, settingsCfg>>
    /\ \E deleted \in BOOLEAN :
        IF temp.zip = None \/ ~deleted
        THEN Return(p, Err("Failed to delete zip file")) /\ UNCHANGED temp
        ELSE /\ procs' = [procs EXCEPT ![p].pc = "find payload"]
             /\ temp' = [temp EXCEPT !.zip = None]
             /\ UNCHANGED reply

\* Steps 5 and 6 on the extraction directory as it is; read_dir fails on a
\* directory that is not there, and may fail on one that is.
FindPayload(p) ==
    /\ At(p, "download_latest_windows_release", "find payload")
    /\ UNCHANGED <<configFile, exes, temp, launchVars, clientCfg, serverCfg, settingsCfg>>
    /\ \E read \in BOOLEAN :
        LET found == IF temp.extracted = None
                     THEN Err("Failed to read extraction directory")
                     ELSE IF "tes3mp.exe" \notin temp.extracted[1].files /\ ~read
                     THEN Err("Failed to read extraction directory")
                     ELSE LocatePayload(temp.extracted[1])
        IN  IF ~found.ok THEN Return(p, found)
            ELSE /\ procs' = [procs EXCEPT ![p].pc = "move", ![p].folder = Some(found.value)]
                 /\ UNCHANGED reply

\* Step 7: get_appdata_dir, the permanent directory removed when it exists,
\* and the payload folder renamed to it. What else the extraction directory
\* held stays in the temp directory.
MoveToAppData(p) ==
    /\ At(p, "download_latest_windows_release", "move")
    /\ UNCHANGED <<configFile, launchVars, clientCfg, serverCfg, settingsCfg>>
    /\ \E appdata, removed, renamed \in BOOLEAN :
        LET folder == procs[p].folder[1]
            there == temp.extracted # None /\ FolderExists(temp.extracted[1], folder)
        IN  IF ~appdata
            THEN Return(p, Err("Failed to get APPDATA environment variable"))
                    /\ UNCHANGED <<exes, temp>>
            ELSE IF InPermanent # {} /\ ~removed
            THEN /\ Return(p, Err("Failed to remove existing TES3MP installation"))
                 /\ exes' \in {exes, exes \ InPermanent}
                 /\ UNCHANGED temp
            ELSE IF ~there \/ ~renamed
            THEN /\ Return(p, Err("Failed to move TES3MP to AppData"))
                 /\ exes' = exes \ InPermanent
                 /\ UNCHANGED temp
            ELSE /\ procs' = [procs EXCEPT ![p].pc = "read config"]
                 /\ exes' = (exes \ InPermanent)
                            \cup {JoinPath(PermanentPath, n) :
                                    n \in FolderFiles(temp.extracted[1], folder)}
                 /\ temp' = [temp EXCEPT !.extracted =
                                IF folder = "" THEN None
                                ELSE Some([@[1] EXCEPT !.entries =
                                            SelectSeq(@, LAMBDA e : e.name # folder)])]
                 /\ UNCHANGED reply

\* Step 8, first half: config.json is read and the record to write is made.
ReadConfig(p) ==
    /\ At(p, "download_latest_windows_release", "read config")
    /\ UNCHANGED <<configFile, exes, temp, launchVars, clientCfg, serverCfg, settingsCfg>>
    /\ \E now \in Times :
        LET config == UpsertConfig(configFile, PermanentPath, procs[p].version, now)
        IN  IF ~config.ok THEN Return(p, config)
            ELSE /\ procs' = [procs EXCEPT ![p].pc = "write config",
                                           ![p].existing = Some(configFile),
                                           ![p].config = Some(config.config)]
                 /\ UNCHANGED reply

\* The record to write made from the file as it is when it is written.
RecordToWriteFromFile(p) ==
    IF configFile.kind # "Config" \/ procs[p].existing[1].kind # "Config"
    THEN procs[p].config[1]
    ELSE IF procs[p].cmd = "set_mode"
    THEN [configFile EXCEPT !.mode = procs[p].config[1].mode]
    ELSE [procs[p].config[1] EXCEPT !.mode = configFile.mode]

\* The record the command made from the file it read.
RecordToWrite(p) == procs[p].config[1]

\* Step 8, second half, taking the payload away again when the write fails.
WriteConfigRollingBack(p) ==
    /\ At(p, "download_latest_windows_release", "write config")
    /\ UNCHANGED <<temp, launchVars, clientCfg, serverCfg, settingsCfg>>
    /\ \E written \in BOOLEAN :
        IF ~written
        THEN /\ Return(p, Err("Failed to write config file"))
             /\ configFile' \in {configFile, Corrupt}
             /\ exes' = exes \ InPermanent
        ELSE /\ Return(p, Ok("TES3MP installed successfully to"))
             /\ configFile' = RecordToWrite(p)
             /\ UNCHANGED exes

\* Step 8, second half: fs::write of the record made from what was read; a
\* write that fails may leave a file that cannot be parsed.
WriteConfig(p) ==
    /\ At(p, "download_latest_windows_release", "write config")
    /\ UNCHANGED <<exes, temp, launchVars, clientCfg, serverCfg, settingsCfg>>
    /\ \E written \in BOOLEAN :
        IF ~written
        THEN /\ Return(p, Err("Failed to write config file"))
             /\ configFile' \in {configFile, Corrupt}
        ELSE /\ Return(p, Ok("TES3MP installed successfully to"))
             /\ configFile' = RecordToWrite(p)

download_latest_windows_release(p) ==
    \/ QueryRelease(p)
    \/ Download(p)
    \/ Extract(p)
    \/ DeleteZip(p)
    \/ FindPayload(p)
    \/ MoveToAppData(p)
    \/ ReadConfig(p)
    \/ WriteConfig(p)

\* set_mode, first half: get_appdata_dir, then config.json is read and the
\* record to write is made.
SetModeRead(p) ==
    /\ At(p, "set_mode", "read config")
    /\ UNCHANGED <<configFile, exes, temp, launchVars, clientCfg, serverCfg, settingsCfg>>
    /\ \E appdata \in BOOLEAN, now \in Times :
        LET config == ModeConfig(configFile, procs[p].mode[1], now)
        IN  IF ~appdata THEN Return(p, Err("Failed to get APPDATA environment variable"))
            ELSE IF ~config.ok THEN Return(p, config)
            ELSE /\ procs' = [procs EXCEPT ![p].pc = "write config",
                                           ![p].existing = Some(configFile),
                                           ![p].config = Some(config.config)]
                 /\ UNCHANGED reply

\* set_mode, second half: fs::write of the record made from what was read.
SetModeWrite(p) ==
    /\ At(p, "set_mode", "write config")
    /\ UNCHANGED <<exes, temp, launchVars, clientCfg, serverCfg, settingsCfg>>
    /\ \E written \in BOOLEAN :
        IF ~written
        THEN /\ Return(p, Err("Failed to write config file"))
             /\ configFile' \in {configFile, Corrupt}
        ELSE /\ Return(p, Ok("Mode set to"))
             /\ configFile' = RecordToWrite(p)

set_mode(p) == SetModeRead(p) \/ SetModeWrite(p)

\* The config file and the payload the commands start from.
StoreInits ==
    {<<NoFile, {}>>, <<Corrupt, {}>>}
    \cup {<<NerevarConfig(PermanentPath, "0.8.0", 1, m),
            {JoinPath(PermanentPath, n) : n \in ExeNames}>> :
                m \in {None, Some("player"), Some("server")}}

\* The commands that run together: the installer alone, set_mode alone, and
\* the installer with set_mode.
Install == Proc("download_latest_windows_release", None)
Commands ==
    {<<Install>>}
    \cup {<<Proc("set_mode", Some(m))>> : m \in Mode}
    \cup {<<Install, Proc("set_mode", Some(m))>> : m \in Mode}

InitStore ==
    /\ \E fs \in StoreInits : configFile = fs[1] /\ exes = fs[2]
    /\ launches = <<>> /\ events = <<>>
    /\ clientCfg = None /\ serverCfg = None /\ settingsCfg = None /\ reply = None
    /\ temp = EmptyTemp /\ procs \in Commands

\* The installer is invoked again once the run before it has returned a
\* failure; of that run the result is left, its locals are gone.
Retry(p) ==
    /\ At(p, "download_latest_windows_release", "after failure")
    /\ p > 1 /\ procs[p - 1].pc = "done" /\ ~procs[p - 1].result[1].ok
    /\ procs' = [procs EXCEPT ![p - 1] = Returned(Proc(@.cmd, @.mode), @.result[1]),
                              ![p].pc = "query release"]
    /\ UNCHANGED <<configFile, exes, temp, reply, launchVars, clientCfg, serverCfg, settingsCfg>>

NextStore ==
    \E p \in DOMAIN procs :
        \/ download_latest_windows_release(p)
        \/ set_mode(p)

SpecStore == InitStore /\ [][NextStore]_vars

\* The installer run again after it failed, on a machine without a record
\* and on one with an installation.
RetryInits == {fs \in StoreInits : fs[1] = NoFile \/ (fs[1].kind = "Config" /\ fs[1].mode = Some("server"))}
InitRetry ==
    /\ \E fs \in RetryInits : configFile = fs[1] /\ exes = fs[2]
    /\ launches = <<>> /\ events = <<>>
    /\ clientCfg = None /\ serverCfg = None /\ settingsCfg = None /\ reply = None
    /\ temp = EmptyTemp
    /\ procs = <<Install, [Install EXCEPT !.pc = "after failure"]>>

NextRetry ==
    \E p \in DOMAIN procs :
        \/ download_latest_windows_release(p)
        \/ Retry(p)

SpecRetry == InitRetry /\ [][NextRetry]_vars

\* The successful runs of the installer.
Installed == reply # None /\ reply[1].cmd = "download_latest_windows_release"
                 /\ reply[1].result.ok

\* C8: a successful install run on an existing record with mode m writes a
\* record with mode m; it writes mode player only when the record had no mode
\* or there was no record. The other three fields are those of the run.
C8_UpsertKeepsMode ==
    Installed =>
        LET old == reply[1].before
        IN  /\ configFile.kind = "Config"
            /\ configFile.tes3mp_path = PermanentPath
            /\ configFile.version = reply[1].version
            /\ configFile.last_updated \in Times
            /\ \A m \in Mode :
                    (old.kind = "Config" /\ old.mode = Some(m)) => configFile.mode = Some(m)
            /\ configFile.mode = Some("player")
                    => \/ old.kind = "NoFile"
                       \/ old.kind = "Config" /\ old.mode \in {None, Some("player")}

\* The spec's example: mode server, a new version, still mode server.
C8_Witness ==
    /\ Installed
    /\ reply[1].before.kind = "Config" /\ reply[1].before.mode = Some("server")
    /\ configFile.version = "0.8.1" /\ reply[1].before.version # "0.8.1"
    /\ configFile.mode = Some("server")

\* The installer runs that are at pc, and those that returned the error that
\* starts with text.
InstallAt(p, pc) == At(p, "download_latest_windows_release", pc)
FailedWith(p, text) ==
    /\ procs[p].pc = "done" /\ ~procs[p].result[1].ok
    /\ starts_with(procs[p].result[1].error, text)

\* The folders of the extraction directory, and those named tes3mp*.
Folders(tree) == {i \in DOMAIN tree.entries : tree.entries[i].is_dir}
Matching(tree) ==
    {i \in Folders(tree) : starts_with(to_lowercase(tree.entries[i].name), "tes3mp")}

\* C12: with tes3mp.exe in the extraction root the root is the payload folder,
\* whatever the folders are, and the folders are not read; otherwise the
\* payload folder is the first folder whose name starts with tes3mp in any
\* case; with no such folder the step fails with a text that has the name of
\* every folder of the extraction directory.
C12_PayloadFolder ==
    \A p \in DOMAIN procs :
        /\ InstallAt(p, "move") =>
              LET tree == temp.extracted[1]
                  folder == procs[p].folder[1]
              IN  IF "tes3mp.exe" \in tree.files THEN folder = ""
                  ELSE \E i \in Matching(tree) :
                          /\ folder = tree.entries[i].name
                          /\ \A j \in Matching(tree) : i <= j
        /\ FailedWith(p, "Failed to read extraction directory")
              => "tes3mp.exe" \notin temp.extracted[1].files
        /\ FailedWith(p, "No TES3MP folder found in") =>
              LET tree == temp.extracted[1]
              IN  /\ "tes3mp.exe" \notin tree.files
                  /\ Matching(tree) = {}
                  /\ \A i \in Folders(tree) :
                        contains(procs[p].result[1].error,
                                 "\"" \o tree.entries[i].name \o "\"")
        /\ FailedWith(p, "tes3mp.exe not found in")
              => "tes3mp.exe" \notin temp.extracted[1].files /\ Matching(temp.extracted[1]) # {}

\* The folder named in capitals is taken, after a file named tes3mp.txt and a
\* folder named docs.
C12_Witness ==
    \E p \in DOMAIN procs :
        /\ InstallAt(p, "move")
        /\ "tes3mp.exe" \notin temp.extracted[1].files
        /\ procs[p].folder = Some("TES3MP.Win64")

\* The run that lists the folders docs and bin.
C12_WitnessListed ==
    \E p \in DOMAIN procs :
        procs[p].pc = "done"
        /\ procs[p].result[1] = Err("No TES3MP folder found in: tes3mp_extracted. "
                                    \o "Available folders: [\"docs\", \"bin\"]")

\* C13: the step of the installer that receives a status outside 200..299
\* returns the error of the download step and leaves the temp directory, the
\* permanent directory and config.json as they are; the step before it left
\* them as they were, and a command that has returned takes no further step.
C13_NonSuccessStatus ==
    [][\A p \in DOMAIN procs :
          /\ (InstallAt(p, "download") /\ procs'[p].status # None
                /\ procs'[p].status[1] \notin 200..299)
                => /\ procs'[p].pc = "done"
                   /\ procs'[p].result = Some(Err("Download failed with status"))
                   /\ UNCHANGED <<temp, exes, configFile>>
          /\ (InstallAt(p, "query release") /\ procs'[p] # procs[p])
                => UNCHANGED <<temp, exes, configFile>>
          /\ procs[p].pc = "done" => procs'[p] = procs[p]]_vars

\* A 404 over an existing installation: the five executables and the record
\* are there, and nothing is in the temp directory.
C13_Witness ==
    /\ Len(procs) = 1
    /\ FailedWith(1, "Download failed with status") /\ procs[1].status = Some(404)
    /\ temp = EmptyTemp
    /\ InPermanent = {JoinPath(PermanentPath, n) : n \in ExeNames}
    /\ configFile = NerevarConfig(PermanentPath, "0.8.0", 1, Some("server"))

\* C14: an installer whose release query failed, for the version or for the
\* URL, has "" for what it asked, came to the download step, and returns
\* there with one of the errors of Steps 1 and 2.
C14_QueryFailureReported ==
    \A p \in DOMAIN procs :
        (procs[p].queried # <<>> /\ (~procs[p].queried[1] \/ ~procs[p].queried[2]))
            => /\ ~procs[p].queried[1] => procs[p].version = ""
               /\ ~procs[p].queried[2] => procs[p].url = ""
               /\ \/ InstallAt(p, "download")
                  \/ \E text \in {"Failed to download file", "Download failed with status",
                                   "Failed to read response bytes", "Failed to save zip file"} :
                        FailedWith(p, text)

\* C18: the command that returned success last wrote the record it made from
\* the file as it had read it, whatever was written to the file since; so the
\* file is that record, and what another command wrote in between is gone.
C18_LastWriterWins ==
    (reply # None /\ reply[1].result.ok) =>
        \E now \in Times :
            configFile =
                IF reply[1].cmd = "set_mode"
                THEN ModeConfig(reply[1].before, reply[1].mode[1], now).config
                ELSE UpsertConfig(reply[1].before, PermanentPath, reply[1].version, now).config

\* set_mode(server) and the installer both returned success, and the file has
\* mode player.
C18_Witness ==
    /\ Len(procs) = 2
    /\ \A p \in DOMAIN procs : procs[p].pc = "done" /\ procs[p].result[1].ok
    /\ procs[2].cmd = "set_mode" /\ procs[2].mode = Some("server")
    /\ configFile.kind = "Config" /\ configFile.mode = Some("player")

\* The steps in which Step 8 of installer p fails.
UpsertFails(p) ==
    /\ InstallAt(p, "read config") \/ InstallAt(p, "write config")
    /\ procs'[p].pc = "done" /\ ~procs'[p].result[1].ok

\* C20 as stated: when Step 8 fails the permanent directory keeps the payload
\* that was moved into it, and config.json is what it was before, a record or
\* no file.
C20_UpsertFailureKeepsConfig ==
    [][\A p \in DOMAIN procs :
          UpsertFails(p) => /\ JoinPath(PermanentPath, "tes3mp.exe") \in exes'
                            /\ exes' = exes
                            /\ configFile' = configFile]_vars

\* C20 as the code has it: when Step 8 fails the permanent directory keeps
\* the payload that was moved into it; config.json is what it was before when
\* the failure is in reading it, and is either that or a file that cannot be
\* parsed when the failure is in writing it. It is never the new record.
C20_NoRollback ==
    [][\A p \in DOMAIN procs :
          UpsertFails(p) => /\ JoinPath(PermanentPath, "tes3mp.exe") \in exes'
                            /\ exes' = exes
                            /\ \/ configFile' = configFile
                               \/ InstallAt(p, "write config") /\ configFile' = Corrupt]_vars

\* The write of Step 8 failed over version 0.8.0: the new payload, which is
\* tes3mp.exe alone, is in the permanent directory, and the record is the one
\* of before.
C20_Witness ==
    /\ Len(procs) = 1
    /\ FailedWith(1, "Failed to write config file")
    /\ InPermanent = {JoinPath(PermanentPath, "tes3mp.exe")}
    /\ configFile = NerevarConfig(PermanentPath, "0.8.0", 1, Some("server"))

\* The errors of Steps 5 and 6.
LocateErrors == {"Failed to read extraction directory", "No TES3MP folder found in",
                 "tes3mp.exe not found in"}

\* C21: the archive is deleted after the payload folder is located: an
\* installer that is about to locate the folder, or that failed locating it,
\* still has tes3mp_latest.zip in the temp directory.
C21_ArchiveKeptUntilLocated ==
    \A p \in DOMAIN procs :
        (InstallAt(p, "find payload") \/ \E text \in LocateErrors : FailedWith(p, text))
            => temp.zip # None

\* C24: the version a successful install run persists and the URL it
\* downloaded from are the version and the url of one metadata object.
C24_VersionAndUrlOfOneRelease ==
    \A p \in DOMAIN procs :
        (InstallAt(p, "done") /\ procs[p].result # None /\ procs[p].result[1].ok)
            => \E r \in DOMAIN Releases :
                    /\ procs[p].config[1].version = Releases[r].version
                    /\ procs[p].url = Releases[r].url

\* C25: set_mode(m) that read a record writes that record with mode m, its
\* path, version and last-updated time unchanged; set_mode(m) that found no
\* file writes a record with the empty path, version "0.0.0" and mode m; and
\* set_mode on a file that cannot be read or parsed returns an error without
\* writing.
C25_SetModeChangesModeOnly ==
    [][\A p \in DOMAIN procs :
        /\ (At(p, "set_mode", "write config") /\ procs'[p].pc = "done"
                /\ procs'[p].result[1].ok)
            => LET old == procs[p].existing[1]
                   m == procs[p].mode
               IN  /\ old.kind # "Corrupt"
                   /\ old.kind = "Config"
                        => configFile' = NerevarConfig(old.tes3mp_path, old.version,
                                                       old.last_updated, m)
                   /\ old.kind = "NoFile"
                        => \E now \in Times : configFile' = NerevarConfig("", "0.0.0", now, m)
        /\ (At(p, "set_mode", "read config") /\ configFile.kind = "Corrupt"
                /\ procs'[p] # procs[p])
            => /\ procs'[p].pc = "done" /\ ~procs'[p].result[1].ok
               /\ configFile' = configFile]_vars

\* set_mode(server) has rewritten the record of an installation in mode
\* player.
C25_Witness ==
    /\ Len(procs) = 1 /\ At(1, "set_mode", "done") /\ procs[1].result[1].ok
    /\ procs[1].mode = Some("server")
    /\ procs[1].existing = Some(NerevarConfig(PermanentPath, "0.8.0", 1, Some("player")))
    /\ configFile = NerevarConfig(PermanentPath, "0.8.0", 1, Some("server"))

\* set_mode(server) has created the record, and set_mode has failed on a file
\* that cannot be parsed.
C25_WitnessNoFile ==
    /\ Len(procs) = 1 /\ At(1, "set_mode", "done") /\ procs[1].result[1].ok
    /\ procs[1].existing = Some(NoFile)
    /\ configFile.kind = "Config" /\ configFile.tes3mp_path = "" /\ configFile.version = "0.0.0"
C25_WitnessCorrupt ==
    /\ Len(procs) = 1 /\ At(1, "set_mode", "done") /\ ~procs[1].result[1].ok
    /\ configFile = Corrupt /\ procs[1].existing = None

\* The failures of a run that come from the run's own steps: a request, a
\* file operation, or the content of the archive it downloaded.
StepErrors ==
    {"Failed to download file", "Download failed with status", "Failed to read response bytes",
     "Failed to save zip file", "Failed to open zip file", "Failed to read zip archive",
     "Failed to remove existing extraction directory", "Failed to extract zip file",
     "Failed to delete zip file", "Failed to get APPDATA environment variable",
     "Failed to remove existing TES3MP installation", "Failed to move TES3MP to AppData",
     "Failed to write config file"} \cup LocateErrors

\* C26: an installer run after a failed one either has a step of its own
\* failing, or fails on a config file that was unreadable before the failed
\* run too, or succeeds, and then the permanent location holds the payload
\* and the record names it; nothing the failed run left behind makes it fail.
C26_RetryInstalls ==
    (Len(procs) = 2 /\ InstallAt(2, "done")) =>
        \/ \E text \in StepErrors : FailedWith(2, text)
        \/ /\ FailedWith(2, "Failed to parse existing config")
           /\ FailedWith(1, "Failed to parse existing config")
        \/ /\ procs[2].result[1].ok
           /\ JoinPath(PermanentPath, "tes3mp.exe") \in exes
           /\ configFile.kind = "Config" /\ configFile.tes3mp_path = PermanentPath

\* The leftovers the retry does deal with: the archive, the extraction
\* directory and the permanent folder of the failed run.
C26_RetryAfterLeftovers ==
    (Len(procs) = 2 /\ InstallAt(2, "done") /\ ~FailedWith(1, "Failed to write config file")) =>
        \/ \E text \in StepErrors : FailedWith(2, text)
        \/ /\ FailedWith(2, "Failed to parse existing config")
           /\ FailedWith(1, "Failed to parse existing config")
        \/ /\ procs[2].result[1].ok
           /\ JoinPath(PermanentPath, "tes3mp.exe") \in exes
           /\ configFile.kind = "Config" /\ configFile.tes3mp_path = PermanentPath

\* C27: whenever the record of config.json has a non-empty install path, the
\* directory it names holds tes3mp.exe.
C27_RecordedPathIsInstalled ==
    (configFile.kind = "Config" /\ configFile.tes3mp_path # "")
        => JoinPath(configFile.tes3mp_path, "tes3mp.exe") \in exes

(***************************************************************************)
(* Properties of the parsers.                                              *)
(***************************************************************************)
\* The calls of a command that found its file.
Found(cmd) == reply # None /\ reply[1].cmd = cmd /\ reply[1].before # None

\* The fields of the server config record, with the header and the key each
\* is written under.
ServerFields ==
    {[section |-> "General", key |-> "localAddress",
      object |-> "general", field |-> "local_address"],
     [section |-> "General", key |-> "port", object |-> "general", field |-> "port"],
     [section |-> "General", key |-> "maximumPlayers",
      object |-> "general", field |-> "maximum_players"],
     [section |-> "General", key |-> "hostname", object |-> "general", field |-> "hostname"],
     [section |-> "General", key |-> "logLevel", object |-> "general", field |-> "log_level"],
     [section |-> "General", key |-> "password", object |-> "general", field |-> "password"],
     [section |-> "Plugins", key |-> "home", object |-> "plugins", field |-> "home"],
     [section |-> "Plugins", key |-> "plugins", object |-> "plugins", field |-> "plugins"],
     [section |-> "MasterServer", key |-> "enabled",
      object |-> "master_server", field |-> "enabled"],
     [section |-> "MasterServer", key |-> "address",
      object |-> "master_server", field |-> "address"],
     [section |-> "MasterServer", key |-> "port", object |-> "master_server", field |-> "port"],
     [section |-> "MasterServer", key |-> "rate", object |-> "master_server", field |-> "rate"]}

\* The keys a settings script assigns: what stands between "config." and "="
\* on a line.
AssignedKeys(content) ==
    LET v == lines(content)
        assigns == {i \in 1..Len(v) : starts_with(trim(v[i]), "config.")
                                      /\ contains(v[i], "=")}
    IN  {trim(Slice(trim(v[i]), Len("config."), find(trim(v[i]), "=")[1])) : i \in assigns}

\* The field of the settings record each key of the script is for.
SettingsFields ==
    [key \in DOMAIN SimpleKeys \cup DOMAIN TableKeys |->
        IF key \in DOMAIN SimpleKeys THEN SimpleKeys[key].field ELSE TableKeys[key].field]

\* C9: parsing the empty server config and the empty settings script succeeds
\* with every field present, port 25565 and 64 players in the one,
\* nightStartHour 20 and physicsFramerate 60 in the other; and whatever the
\* content, a field whose key the content does not have has the value that
\* parsing the empty content gives it.
C9_ParseStartsFromDefaults ==
    /\ Found("get_tes3mp_server_config") =>
            LET content == reply[1].before[1]
                result == reply[1].result
            IN  /\ result.ok
                /\ content = "" =>
                        /\ DOMAIN result.value = {f.object : f \in ServerFields}
                        /\ \A o \in DOMAIN result.value :
                                DOMAIN result.value[o]
                                    = {f.field : f \in {g \in ServerFields : g.object = o}}
                        /\ result.value.general.port = 25565
                        /\ result.value.general.maximum_players = 64
                /\ \A f \in ServerFields :
                        TargetLines(lines(content), {<<f.section, f.key>>}) = {} =>
                            result.value[f.object][f.field]
                                = parse_server_config("").value[f.object][f.field]
    /\ Found("get_tes3mp_server_settings") =>
            LET content == reply[1].before[1]
                result == reply[1].result
            IN  /\ content = "" =>
                        /\ result.ok
                        /\ DOMAIN result.value.config
                                = {SettingsFields[key] : key \in DOMAIN SettingsFields}
                        /\ result.value.config.night_start_hour = 20
                        /\ result.value.config.physics_framerate = 60
                /\ result.ok =>
                        \A key \in DOMAIN SettingsFields \ AssignedKeys(content) :
                            result.value.config[SettingsFields[key]]
                                = parse_server_settings("").value.config[SettingsFields[key]]

\* A server config with the port and the flag of [MasterServer] only was
\* parsed: these two are read, the port of [General] is the default.
C9_Witness ==
    /\ Found("get_tes3mp_server_config")
    /\ reply[1].before = Some("[MasterServer]\nport = 7\nenabled = false\n")
    /\ reply[1].result.ok
    /\ reply[1].result.value.master_server.port = 7
    /\ ~reply[1].result.value.master_server.enabled
    /\ reply[1].result.value.general.port = 25565

\* The list fields of the settings record.
ListFields ==
    {"game_settings", "vr_settings", "world_startup_scripts", "player_startup_scripts",
     "forbidden_cells", "banned_equipment_items", "enforced_collision_ref_ids"}

\* C10: a settings record with an entry in each of its lists is what parsing
\* the script written from it gives.
C10_ParseOfWrittenIsRecord ==
    Found("get_tes3mp_server_settings") =>
        \A R \in SettingsRecords :
            /\ \A f \in ListFields : R.config[f] # <<>>
            /\ reply[1].before = Some(write_server_settings(R))
            => reply[1].result = Ok(R)

\* C11: the list of cells written as a table on one line and the same table
\* written over three lines closed by a lone brace both parse to the list of
\* the two cells, in order.
C11_TableOnOneLineOrSeveral ==
    /\ Found("get_tes3mp_server_settings")
    /\ reply[1].before \in {Some(ForbiddenCellsOnOneLine), Some(ForbiddenCellsOnThreeLines)}
    => /\ reply[1].result.ok
       /\ reply[1].result.value.config.forbidden_cells = <<"A", "B">>
       /\ parse_server_settings(ForbiddenCellsOnOneLine)
            = parse_server_settings(ForbiddenCellsOnThreeLines)

(***************************************************************************)
(* Update checks, self-update, ping and the OpenMW config.                 *)
(***************************************************************************)
\* env!("CARGO_PKG_VERSION"): a constant of the build.
AppVersions == {"0.1.0", "0.8.1"}
\* std::env::current_exe() and the backup beside it
CurrentExe == JoinPath("APP", "nerevar.exe")
BackupPath == JoinPath("APP", "nerevar.exe.backup")
\* temp_dir().join("nerevar_update.exe"), what download_app_update returns
TempFilePaths == {"TEMP/nerevar_update.exe"}

\* What {api}/releases/.. answers: no answer, a body that is no JSON, or a
\* JSON object with any value under "version" and under "url".
Responses ==
    {[kind |-> k, version |-> JNull, url |-> JNull] : k \in {"error", "no json"}}
    \cup {[kind |-> "json", version |-> v, url |-> u] :
            v \in {JNull, JNumber(1), JString("0.0.0"), JString("0.8.0"), JString("0.8.1"),
                   JString("v0.8.1")},
            u \in {JNull, JString(ReleaseUrl)}}

\* The three numbers of a version a.b.c, None for any other text.
VersionNumbers(v) ==
    LET parts == split(v, ".")
    IN  IF Len(parts) = 3 /\ \A i \in 1..3 : ParseUnsigned(parts[i], U16Max) # None
        THEN Some([i \in 1..3 |-> ParseUnsigned(parts[i], U16Max)[1]])
        ELSE None

\* An update only for a remote version that is the greater one.
UpdateAvailableIfNewer(current_version, latest_version) ==
    LET c == VersionNumbers(current_version)
        l == VersionNumbers(latest_version)
    IN  /\ c # None /\ l # None
        /\ \E i \in 1..3 : l[1][i] > c[1][i] /\ \A j \in 1..(i - 1) : l[1][j] = c[1][j]

\* update_available: current_version != latest_version
UpdateAvailable(current_version, latest_version) == current_version # latest_version

\* The body the two checks share, what being "TES3MP" or "Nerevar".
UpdateCheckResponse(current_version, response, what) ==
    IF response.kind = "error" THEN Err("Failed to check for " \o what \o " update")
    ELSE IF response.kind = "no json" THEN Err("Failed to parse " \o what \o " update response")
    ELSE LET latest_version == unwrap_or(as_str(response.version), "0.0.0")
         IN  Ok([update_available |-> UpdateAvailable(current_version, latest_version),
                 version |-> latest_version, url |-> as_str(response.url)])

\* The application is running: apply_app_update has not ended it.
Running == procs[1].pc # "exited"

updateFrame == <<configFile, exes, temp, procs, launches, events, clientCfg, serverCfg,
                 settingsCfg>>

check_for_tes3mp_update ==
    /\ Running
    /\ UNCHANGED updateFrame
    /\ \E response \in Responses :
        LET config == get_nerevar_config
            Reply(current, result) ==
                reply' = Some([cmd |-> "check_for_tes3mp_update", current |-> current,
                               response |-> response, panicked |-> FALSE, result |-> result])
        IN  IF ~config.ok THEN Reply("", Err("Failed to get Nerevar config"))
            ELSE IF ~config.some
            THEN Reply("", Err("No Nerevar config found. Please install TES3MP first."))
            ELSE Reply(config.config.version,
                       UpdateCheckResponse(config.config.version, response, "TES3MP"))

check_for_app_update ==
    /\ Running
    /\ UNCHANGED updateFrame
    /\ \E response \in Responses :
        reply' = Some([cmd |-> "check_for_app_update", current |-> procs[1].version,
                       response |-> response, panicked |-> FALSE,
                       result |-> UpdateCheckResponse(procs[1].version, response, "Nerevar")])

\* <SocketAddr as FromStr> on ip:port with a port that format! wrote: four
\* decimal numbers up to 255 without needless zeros, or an IPv6 address in
\* brackets, of which the model has ::1 alone.
IsSocketAddr(ip) ==
    LET parts == split(ip, ".")
        Octet(s) == /\ IsDigits(s) /\ Len(s) <= 3
                    /\ (Len(s) > 1 => ~starts_with(s, "0"))
                    /\ Accumulate(s, 0, U8Max) # None
    IN  \/ Len(parts) = 4 /\ \A i \in 1..4 : Octet(parts[i])
        \/ ip = "[::1]"

\* A parse that takes any text for an address.
IsAnyText(ip) == TRUE

\* What the server list and the connect card give as address.
Addresses == {"127.0.0.1", "10.0.0.256", "localhost", "::1", "[::1]"}
Ports == {25565}

\* addr.parse().unwrap() panics on what is no socket address; the connection
\* gives the milliseconds it took, or None.
ping_server_tcp(ip, port) ==
    /\ Running
    /\ UNCHANGED updateFrame
    /\ \E connected \in BOOLEAN, millis \in {35} :
        reply' = Some([cmd |-> "ping_server_tcp", ip |-> ip, port |-> port,
                       panicked |-> ~IsSocketAddr(ip),
                       result |-> IF IsSocketAddr(ip) /\ connected THEN Some(millis) ELSE None])

\* The call of apply_app_update the application starts with, version being
\* the version of the build.
ApplyProc(version, temp_file_path) ==
    [cmd |-> "apply_app_update", pc |-> "backup", version |-> version,
     temp_file_path |-> temp_file_path, copied |-> FALSE, result |-> None]

ApplyReturn(p, result) ==
    /\ procs' = [procs EXCEPT ![p] = Returned(@, result)]
    /\ reply' = Some([cmd |-> "apply_app_update", panicked |-> FALSE, result |-> result])

\* nerevar_update.bat
BatchContent(temp_file_path, current_exe_str, backup_path) ==
    Concat(<<"@echo off\ntimeout /t 2 /nobreak >nul\ncopy \"", temp_file_path, "\" \"",
             current_exe_str, "\"\nif %errorlevel% equ 0 (\n    del \"", temp_file_path,
             "\"\n    del \"%~f0\"\n    start \"\" \"", current_exe_str,
             "\"\n) else (\n    echo Update failed, restoring backup...\n    copy \"",
             backup_path, "\" \"", current_exe_str, "\"\n    del \"", backup_path,
             "\"\n    del \"%~f0\"\n)\n">>)

\* current_exe and fs::copy to the backup, going on when the copy fails.
ApplyBackupUnchecked(p) ==
    /\ At(p, "apply_app_update", "backup")
    /\ UNCHANGED <<configFile, temp, reply, launchVars, clientCfg, serverCfg, settingsCfg>>
    /\ \E copied \in BOOLEAN :
        /\ exes' = IF copied THEN exes \cup {BackupPath} ELSE exes
        /\ procs' = [procs EXCEPT ![p].pc = "script", ![p].copied = copied]

\* current_exe and fs::copy of the running executable to the backup.
ApplyBackup(p) ==
    /\ At(p, "apply_app_update", "backup")
    /\ UNCHANGED <<configFile, temp, launchVars, clientCfg, serverCfg, settingsCfg>>
    /\ \E current_exe, copied \in BOOLEAN :
        IF ~current_exe
        THEN ApplyReturn(p, Err("Failed to get current executable path")) /\ UNCHANGED exes
        ELSE IF ~copied
        THEN ApplyReturn(p, Err("Failed to create backup")) /\ UNCHANGED exes
        ELSE /\ exes' = exes \cup {BackupPath}
             /\ procs' = [procs EXCEPT ![p].pc = "script", ![p].copied = TRUE]
             /\ UNCHANGED reply

\* fs::write of the batch script
ApplyScript(p) ==
    /\ At(p, "apply_app_update", "script")
    /\ UNCHANGED <<configFile, exes, launchVars, clientCfg, serverCfg, settingsCfg>>
    /\ \E written \in BOOLEAN :
        IF ~written
        THEN /\ ApplyReturn(p, Err("Failed to create batch script"))
             /\ temp' \in {temp, [temp EXCEPT !.script = Some("")]}
        ELSE /\ temp' = [temp EXCEPT !.script =
                            Some(BatchContent(procs[p].temp_file_path, "APP/nerevar.exe",
                                              "APP/nerevar.exe.backup"))]
             /\ procs' = [procs EXCEPT ![p].pc = "spawn"]
             /\ UNCHANGED reply

\* cmd /c nerevar_update.bat, detached
ApplySpawn(p) ==
    /\ At(p, "apply_app_update", "spawn")
    /\ UNCHANGED <<configFile, exes, temp, events, clientCfg, serverCfg, settingsCfg>>
    /\ \E spawned \in BOOLEAN :
        IF ~spawned
        THEN ApplyReturn(p, Err("Failed to start update script")) /\ UNCHANGED launches
        ELSE /\ launches' = Append(launches, [tool |-> "cmd", script |-> temp.script])
             /\ procs' = [procs EXCEPT ![p].pc = "exit"]
             /\ UNCHANGED reply

\* std::process::exit(0)
ApplyExit(p) ==
    /\ At(p, "apply_app_update", "exit")
    /\ UNCHANGED <<configFile, exes, temp, reply, launchVars, clientCfg, serverCfg, settingsCfg>>
    /\ procs' = [procs EXCEPT ![p].pc = "exited"]

apply_app_update(p) == ApplyBackup(p) \/ ApplyScript(p) \/ ApplySpawn(p) \/ ApplyExit(p)

\* The config files the update check of the payload is run on.
UpdateConfigs ==
    {NoFile, Corrupt}
    \cup {NerevarConfig(PermanentPath, v, 1, Some("player")) : v \in {"", "0.0.0", "0.8.0", "0.8.1"}}

InitUpdate ==
    /\ configFile \in UpdateConfigs
    /\ exes = {CurrentExe}
    /\ launches = <<>> /\ events = <<>>
    /\ clientCfg = None /\ serverCfg = None /\ settingsCfg = None /\ reply = None
    /\ temp = EmptyTemp
    /\ \E version \in AppVersions, path \in TempFilePaths : procs = <<ApplyProc(version, path)>>

NextUpdate ==
    \/ check_for_tes3mp_update
    \/ check_for_app_update
    \/ \E ip \in Addresses, port \in Ports : ping_server_tcp(ip, port)
    \/ apply_app_update(1)

SpecUpdate == InitUpdate /\ [][NextUpdate]_vars

\* The calls of an update check that gave an answer.
Checked ==
    /\ reply # None
    /\ reply[1].cmd \in {"check_for_tes3mp_update", "check_for_app_update"}
    /\ reply[1].result.ok

C15_WitnessNoVersion ==
    /\ Checked /\ reply[1].current = "0.0.0" /\ reply[1].response.version = JNull
    /\ ~reply[1].result.value.update_available

\* C16: the backup is copied before the script is written, the script is
\* written before it is spawned, and the process ends after that; a script was
\* spawned only after the copy succeeded, with the script file written; once
\* it is spawned the command returns nothing and the one step left is exit.
C16_ApplyOrder ==
    LET apply == procs[1]
    IN  /\ apply.pc \in {"script", "spawn", "exit", "exited"} => BackupPath \in exes
        /\ apply.pc \in {"spawn", "exit", "exited"} => temp.script # None /\ temp.script[1] # ""
        /\ apply.pc \in {"backup", "script", "spawn"} => launches = <<>>
        /\ launches # <<>> => /\ apply.copied
                              /\ Len(launches) = 1 /\ launches[1].script = temp.script
                              /\ apply.pc \in {"exit", "exited"}
                              /\ apply.result = None
                              /\ apply.pc = "exit" => ENABLED ApplyExit(1)
        /\ apply.pc = "exited" => launches # <<>>

\* The script is spawned and the process has ended.
C16_Witness ==
    /\ procs[1].pc = "exited" /\ launches # <<>> /\ BackupPath \in exes
    /\ contains(temp.script[1], "copy \"TEMP/nerevar_update.exe\" \"APP/nerevar.exe\"")

\* C17: every command returns to its caller; none panics.
C17_EveryCommandReturns ==
    reply # None => ~reply[1].panicked

\* What a literal of a scalar key of the settings script is.
ValidLiteral(literal, value) ==
    CASE literal = "number" -> ParseInt(value) # None
      [] literal = "float" -> ParseFloat(value) # None
      [] literal = "bool" -> value \in {"true", "false"}
      [] OTHER -> TRUE

\* C22: a read of a settings script with a line `config.<key> = <value>`, key
\* being a scalar key and value no literal of its type, fails with an error
\* that has the key and the value in it.
C22_MalformedLiteralFails ==
    Found("get_tes3mp_server_settings") =>
        LET v == lines(reply[1].before[1])
        IN  \A i \in 1..Len(v) : \A key \in DOMAIN SimpleKeys :
                LET prefix == "config." \o key \o " = "
                    value == From(v[i], Len(prefix) + 1)
                IN  (starts_with(v[i], prefix)
                        /\ ~ValidLiteral(SimpleKeys[key].literal, value))
                    => /\ ~reply[1].result.ok
                       /\ contains(reply[1].result.error, key)
                       /\ contains(reply[1].result.error, value)

(***************************************************************************)
(* The runtime's workers: the async commands and the monitoring tasks are  *)
(* tasks of one runtime with WorkerThreads worker threads. A run_* command *)
(* has no await, so it runs on a worker from start to end; its monitoring  *)
(* task calls the blocking std child.wait() and holds its worker until the *)
(* child has terminated. The commands that are no async fn run on the main *)
(* thread.                                                                 *)
(***************************************************************************)
AsyncCommands == {"run_tes3mp", "run_openmw_wizard", "set_tes3mp_client_config"}
SyncCommands == {"get_nerevar_config"}
LaunchCommands == {"run_tes3mp", "run_openmw_wizard"}

\* The commands invoked in one run of the model: one more than the workers.
MaxCommands == WorkerThreads + 1

\* The workers held: by a monitoring task inside child.wait().
Blocked == {l \in DOMAIN launches : launches[l].monitor = "waiting"}
WorkerFree == Cardinality(Blocked) < WorkerThreads

workerFrame == <<configFile, exes, temp, events, clientCfg, serverCfg, settingsCfg, reply>>

\* invoke(cmd) of the presentation layer: the command is handed to the
\* runtime, or to the main thread.
Invoke(cmd) ==
    /\ Len(procs) < MaxCommands
    /\ procs' = Append(procs, [cmd |-> cmd, pc |-> "queued"])
    /\ UNCHANGED <<launches, workerFrame>>

\* A worker, or the main thread, runs the command from start to end; a launch
\* spawns the child and gives its monitoring task to the runtime.
RunCommand(p) ==
    /\ p \in DOMAIN procs /\ procs[p].pc = "queued"
    /\ procs[p].cmd \in AsyncCommands => WorkerFree
    /\ procs' = [procs EXCEPT ![p].pc = "done"]
    /\ launches' = IF procs[p].cmd \in LaunchCommands
                   THEN Append(launches, [tool |-> procs[p].cmd, proc |-> "running",
                                          monitor |-> "queued"])
                   ELSE launches
    /\ UNCHANGED workerFrame

\* A worker takes the monitoring task, which enters child.wait().
MonitorWaits(l) ==
    /\ l \in DOMAIN launches /\ launches[l].monitor = "queued"
    /\ WorkerFree
    /\ launches' = [launches EXCEPT ![l].monitor = "waiting"]
    /\ UNCHANGED <<procs, workerFrame>>

\* The operating system: the child terminates.
ChildExits(l) ==
    /\ l \in DOMAIN launches /\ launches[l].proc = "running"
    /\ launches' = [launches EXCEPT ![l].proc = "exited"]
    /\ UNCHANGED <<procs, workerFrame>>

\* child.wait() returns, the exited event is emitted, the task ends and its
\* worker is free again.
MonitorEnds(l) ==
    /\ l \in DOMAIN launches /\ launches[l].monitor = "waiting"
    /\ launches[l].proc = "exited"
    /\ launches' = [launches EXCEPT ![l].monitor = "done"]
    /\ UNCHANGED <<procs, workerFrame>>

InitWorkers ==
    /\ configFile = NoFile /\ exes = {} /\ launches = <<>> /\ events = <<>>
    /\ clientCfg = None /\ serverCfg = None /\ settingsCfg = None /\ reply = None
    /\ temp = EmptyTemp /\ procs = <<>>

NextWorkers ==
    \/ \E cmd \in AsyncCommands \cup SyncCommands : Invoke(cmd)
    \/ \E p \in 1..MaxCommands : RunCommand(p)
    \/ \E l \in 1..MaxCommands : MonitorWaits(l)
    \/ \E l \in 1..MaxCommands : ChildExits(l)
    \/ \E l \in 1..MaxCommands : MonitorEnds(l)

\* The runtime is fair to its tasks and the main thread to its commands; a
\* child may run for ever.
SpecWorkers ==
    /\ InitWorkers /\ [][NextWorkers]_vars
    /\ \A p \in 1..MaxCommands : WF_vars(RunCommand(p))
    /\ \A l \in 1..MaxCommands : WF_vars(MonitorWaits(l)) /\ WF_vars(MonitorEnds(l))

\* C23: every command that was invoked runs to its end, whatever children are
\* still running.
C23_CommandsComplete ==
    \A p \in 1..MaxCommands :
        (p \in DOMAIN procs /\ procs[p].pc = "queued")
            ~> (p \in DOMAIN procs /\ procs[p].pc = "done")

\* The commands of the main thread do run to their end.
C23_SyncCommandsComplete ==
    \A p \in 1..MaxCommands :
        (p \in DOMAIN procs /\ procs[p].pc = "queued" /\ procs[p].cmd \in SyncCommands)
            ~> (p \in DOMAIN procs /\ procs[p].pc = "done")

(***************************************************************************)
(* The hooks of the presentation layer: each listens on the two channels   *)
(* of its tool and keeps isRunning, the pid and the last result. In this   *)
(* specification reply holds what the presentation layer has: the number   *)
(* of events delivered to the listeners and the state of each hook. The    *)
(* game client is launched from its card and from the connect forms, which *)
(* do not look at isRunning.                                               *)
(***************************************************************************)
HookTools == {"client", "launcher"}
\* The launches of one run of the hooks.
MaxHookLaunches == MaxLaunches + 1

\* useState(false), useState(null), useState(null)
NewHook == [isRunning |-> FALSE, pid |-> None, lastResult |-> None]

\* The listeners of the hook of tool t given an event.
Listen(t, hook, event) ==
    IF event.channel = HookChannels(t).started
    THEN [isRunning |-> TRUE, pid |-> Some(event.payload), lastResult |-> None]
    ELSE IF event.channel = HookChannels(t).exited
    THEN [isRunning |-> FALSE, pid |-> None, lastResult |-> Some(event.payload)]
    ELSE hook

\* The webview delivers the events in the order they were emitted.
Deliver ==
    /\ reply[1].delivered < Len(events)
    /\ LET event == events[reply[1].delivered + 1]
       IN  reply' = Some([delivered |-> reply[1].delivered + 1,
                          hooks |-> [t \in HookTools |-> Listen(t, reply[1].hooks[t], event)]])
    /\ UNCHANGED <<configFile, exes, temp, procs, launches, events, clientCfg, serverCfg,
                   settingsCfg>>

\* Tes3MPCard.handleRunLauncher, ManualConnectCard.handleConnect and the
\* connect dialog invoke run_tes3mp; the launcher card invokes
\* run_openmw_launcher.
HookLaunch ==
    /\ Len(launches) < MaxHookLaunches
    /\ \/ LaunchTool("client", "tes3mp.exe", "tes3mp-started", "tes3mp-exited")
       \/ LaunchTool("launcher", "openmw-launcher.exe",
                     "openmw-launcher-started", "openmw-launcher-exited")

InitHooks ==
    /\ configFile = NerevarConfig(PermanentPath, "0.8.1", 1, Some("player"))
    /\ exes = {JoinPath(PermanentPath, n) : n \in ExeNames}
    /\ launches = <<>> /\ events = <<>>
    /\ clientCfg = None /\ serverCfg = None /\ settingsCfg = None
    /\ reply = Some([delivered |-> 0, hooks |-> [t \in HookTools |-> NewHook]])
    /\ temp = EmptyTemp /\ procs = <<>>

NextHooks ==
    \/ HookLaunch
    \/ \E l \in 1..MaxHookLaunches : Returns(l)
    \/ \E l \in 1..MaxHookLaunches : ProcessExits(l)
    \/ \E l \in 1..MaxHookLaunches : Monitor(l)
    \/ Deliver

SpecHooks == InitHooks /\ [][NextHooks]_vars

\* The processes of tool t the hook has heard of and not heard the end of.
Shown(t) ==
    {l \in DOMAIN launches :
        /\ launches[l].tool = t
        /\ \E i \in 1..reply[1].delivered :
                events[i].launch = l /\ events[i].channel = HookChannels(t).started
        /\ ~\E i \in 1..reply[1].delivered :
                events[i].launch = l /\ events[i].channel = HookChannels(t).exited}

\* C28: the hook of a tool says isRunning exactly while a process of the tool
\* whose start event was delivered has not had its exited event delivered,
\* and then its pid is the pid of such a process.
C28_HookFollowsProcesses ==
    \A t \in HookTools :
        LET hook == reply[1].hooks[t]
        IN  /\ hook.isRunning <=> Shown(t) # {}
            /\ hook.isRunning => \E l \in Shown(t) : hook.pid = Some(launches[l].pid)

(***************************************************************************)
(* The connect flows: ManualConnectCard.handleConnect and handleConnect of *)
(* the server list's dialog await set_tes3mp_client_config and then invoke *)
(* run_tes3mp. In this specification reply holds what the awaited invoke   *)
(* gave the flow.                                                          *)
(***************************************************************************)
\* parseInt(port) of the form's field or of the part of the server key after
\* the colon: a number, or None for NaN.
ConnectPorts == {None, Some(25565), Some(U16Max + 1)}

\* The flow going on whatever the update gave it.
ProceedsAlways(result) == TRUE

\* `if (!result) throw ..` and `if (success) {..} else throw ..`; a rejected
\* invoke throws at the await.
Proceeds(result) == result.ok /\ result.value

\* await invoke("set_tes3mp_client_config", { ip, port: parseInt(port),
\* password }): a port that is no u16 is rejected before the command runs.
ConnectUpdate(ip, port, password) ==
    /\ reply = None
    /\ IF port # None /\ port[1] \in 0..U16Max
       THEN set_tes3mp_client_config(ip, port[1], password)
       ELSE /\ reply' = Some([cmd |-> "set_tes3mp_client_config", before |-> clientCfg,
                              ip |-> ip, port |-> port, password |-> password,
                              result |-> [ok |-> FALSE, error |-> "invalid args"]])
            /\ UNCHANGED <<configFile, exes, temp, procs, launchVars, clientCfg, serverCfg,
                           settingsCfg>>

\* await invoke("run_tes3mp"), reached when the flow did not throw.
ConnectLaunch ==
    /\ reply # None /\ Proceeds(reply[1].result)
    /\ launches = <<>>
    /\ LaunchTool("client", "tes3mp.exe", "tes3mp-started", "tes3mp-exited")

InitConnect ==
    /\ configFile = NerevarConfig(PermanentPath, "0.8.1", 1, Some("player"))
    /\ exes = {JoinPath(PermanentPath, n) : n \in ExeNames}
    /\ launches = <<>> /\ events = <<>>
    /\ clientCfg \in {None} \cup {Some(c) : c \in Texts(ClientLines, MaxLines)}
    /\ serverCfg = None /\ settingsCfg = None /\ reply = None
    /\ temp = EmptyTemp /\ procs = <<>>

NextConnect ==
    \/ \E a \in ClientArgs, port \in ConnectPorts : ConnectUpdate(a.ip, port, a.password)
    \/ ConnectLaunch
    \/ Returns(1)

SpecConnect == InitConnect /\ [][NextConnect]_vars

\* C29: a connect flow has invoked run_tes3mp only after its
\* set_tes3mp_client_config returned success, with the file rewritten; a flow
\* whose update failed has launched nothing.
C29_LaunchOnlyAfterUpdate ==
    launches # <<>> =>
        /\ reply # None /\ reply[1].cmd = "set_tes3mp_client_config"
        /\ reply[1].result.ok
        /\ reply[1].before # None
        /\ clientCfg = Some(update_config_values(reply[1].before[1], reply[1].ip,
                                                 reply[1].port, reply[1].password).content)

\* The client was launched after its config was pointed at example.org:7.
C29_Witness ==
    /\ Len(launches) = 1 /\ launches[1].tool = "client" /\ launches[1].proc = "running"
    /\ reply[1].result.ok /\ reply[1].ip = "example.org"
    /\ clientCfg # reply[1].before

\* The update failed, on a file without the keys or a port that is no u16,
\* and nothing is launched.
C29_WitnessFailed ==
    /\ reply # None /\ ~reply[1].result.ok /\ launches = <<>>
    /\ ~ENABLED ConnectLaunch

=============================================================================
